---- MODULE Spec2Model ----
(***************************************************************************)
(* A model of the crawler-traffic analysis pipeline:                       *)
(*   - the bot pattern registry and the classifier (analyze_bots.py),      *)
(*   - the aggregator that builds the per-bot report (analyze_bots.py),    *)
(*   - the access-log line parser (etl_llm_logs.py),                       *)
(*   - the aggregated-CSV append and the ETL handler (etl_lambda.py).      *)
(*                                                                         *)
(* Text is modelled as a sequence of one-character strings, so that        *)
(* splitting, stripping, matching and ordering are computed on characters. *)
(* Python's None is the one-element sequence <<"None">>, which is no text. *)
(***************************************************************************)
EXTENDS Integers, Sequences, FiniteSets, TLC

VARIABLES
    \* --- bot pattern registry and classifier
    doc,            \* the bot-definition document: a sequence of entries
    bot_patterns,   \* the list load_bot_patterns returned
    regPc,          \* "init" | "loaded" | "error"
    user_agent,     \* the agent string last classified
    result          \* the triple classify_user_agent returned, or <<>>

regVars == <<doc, bot_patterns, regPc, user_agent, result>>

VARIABLES
    \* --- aggregator (analyze_aggregated_csv)
    now,            \* datetime.utcnow().date(), as a proleptic ordinal
    days_back,      \* the days_back argument
    aggregated,     \* what get_object finds at the aggregated key: "present",
                    \* or the error code of the ClientError it raises
    aggPc,          \* "start" | "scan" | "done" | "raised"
    rowsRead,       \* the CSV rows the reader has yielded so far
    bot_totals,     \* dict bot -> count, in insertion order
    bot_daily,      \* dict bot -> dict date text -> count
    bot_paths,      \* dict bot -> dict path -> count
    bot_is_llm,     \* dict bot -> is_llm
    overall_total,
    overall_paths,  \* set of paths
    report          \* the returned report, or <<>>

aggVars == <<now, days_back, aggregated, aggPc, rowsRead, bot_totals, bot_daily,
             bot_paths, bot_is_llm, overall_total, overall_paths, report>>

VARIABLES
    \* --- line parser (parse_log_line)
    fields,         \* the fields the line was written from
    line,           \* the text line handed to parse_log_line
    parsed,         \* the ParsedLogLine returned, <<>> for None
    parsePc         \* "ready" | "parsed" | "raised"

parseVars == <<fields, line, parsed, parsePc>>

VARIABLES
    \* --- object storage and the ETL handler (etl_lambda.py)
    objects,        \* the S3 objects: a function from <<bucket, key>> to body
    calls,          \* the batches of the completed append_to_aggregated_csv calls
    inv             \* per invocation of handler: its position and its locals

etlVars == <<objects, calls, inv>>

VARIABLES
    \* --- the record generator (parse_gzip_stream)
    gz_bytes,       \* the compressed blob handed to parse_gzip_stream
    lineNo,         \* the number of lines the loop has read
    yielded,        \* the records yielded so far, in order
    genPc           \* "created" | "reading" | "exhausted" | "raised"

streamVars == <<gz_bytes, lineNo, yielded, genPc>>

vars == <<regVars, aggVars, parseVars, etlVars, streamVars>>

--------------------------------------------------------------------------
(* Text helpers                                                            *)

None == <<"None">>

\* Python truthiness of an optional text: None and "" are falsy.
Truthy(x) == x # None /\ x # <<>>

\* str.lower() on one character (ASCII letters).
Lower(c) ==
    CASE c = "A" -> "a" [] c = "B" -> "b" [] c = "C" -> "c" [] c = "D" -> "d"
      [] c = "E" -> "e" [] c = "F" -> "f" [] c = "G" -> "g" [] c = "H" -> "h"
      [] c = "I" -> "i" [] c = "J" -> "j" [] c = "K" -> "k" [] c = "L" -> "l"
      [] c = "M" -> "m" [] c = "N" -> "n" [] c = "O" -> "o" [] c = "P" -> "p"
      [] c = "Q" -> "q" [] c = "R" -> "r" [] c = "S" -> "s" [] c = "T" -> "t"
      [] c = "U" -> "u" [] c = "V" -> "v" [] c = "W" -> "w" [] c = "X" -> "x"
      [] c = "Y" -> "y" [] c = "Z" -> "z" [] OTHER -> c

LowerText(s) == [i \in 1..Len(s) |-> Lower(s[i])]

\* s[i..j) as a sequence, Python's s[i-1:j-1].
Slice(s, i, j) == IF j <= i THEN <<>> ELSE SubSeq(s, i, j - 1)

\* "sub in s": sub occurs in s as a contiguous run.
Contains(s, sub) ==
    \E i \in 1..(Len(s) + 1) :
        /\ i + Len(sub) - 1 <= Len(s)
        /\ Slice(s, i, i + Len(sub)) = sub

RECURSIVE JoinWith(_, _)
\* sep.join(parts)
JoinWith(parts, sep) ==
    IF parts = <<>> THEN <<>>
    ELSE IF Len(parts) = 1 THEN parts[1]
    ELSE parts[1] \o sep \o JoinWith(Tail(parts), sep)

\* str.strip(): leading and trailing whitespace removed.
IsSpace(c) == c \in {" ", "\t", "\r", "\n", "\f"}

RECURSIVE LStrip(_)
LStrip(s) == IF s # <<>> /\ IsSpace(Head(s)) THEN LStrip(Tail(s)) ELSE s

RECURSIVE RStrip(_)
RStrip(s) ==
    IF s # <<>> /\ IsSpace(s[Len(s)]) THEN RStrip(SubSeq(s, 1, Len(s) - 1)) ELSE s

Strip(s) == RStrip(LStrip(s))

\* "x or ''" on an optional text.
OrEmpty(x) == IF Truthy(x) THEN x ELSE <<>>

\* The characters of the model in code-point order (str comparison).
AsciiOrder ==
    <<"\t", "\n", "\r", " ", "!", "\"", "+", "-", ".", "/",
      "0", "1", "2", "3", "4", "5", "6", "7", "8", "9", ":",
      "A", "B", "C", "D", "E", "F", "G", "H", "I", "J", "K", "L", "M",
      "N", "O", "P", "Q", "R", "S", "T", "U", "V", "W", "X", "Y", "Z",
      "[", "]",
      "a", "b", "c", "d", "e", "f", "g", "h", "i", "j", "k", "l", "m",
      "n", "o", "p", "q", "r", "s", "t", "u", "v", "w", "x", "y", "z", "|">>

Ord(c) == CHOOSE i \in 1..Len(AsciiOrder) : AsciiOrder[i] = c

RECURSIVE TextLess(_, _)
\* a < b on str: lexicographic by code point, a proper prefix is smaller.
TextLess(a, b) ==
    IF b = <<>> THEN FALSE
    ELSE IF a = <<>> THEN TRUE
    ELSE IF Head(a) # Head(b) THEN Ord(Head(a)) < Ord(Head(b))
    ELSE TextLess(Tail(a), Tail(b))

Digits == <<"0", "1", "2", "3", "4", "5", "6", "7", "8", "9">>

IsDigit(c) == \E i \in 1..10 : Digits[i] = c

DigitVal(c) == (CHOOSE i \in 1..10 : Digits[i] = c) - 1

RECURSIVE NumVal(_)
\* int() of a run of decimal digits.
NumVal(s) ==
    IF s = <<>> THEN 0 ELSE NumVal(SubSeq(s, 1, Len(s) - 1)) * 10 + DigitVal(s[Len(s)])

AllDigits(s) == \A i \in 1..Len(s) : IsDigit(s[i])

RECURSIVE ZeroPad(_, _)
\* n as decimal text, zero-padded to w characters ("%0wd").
ZeroPad(n, w) ==
    IF w <= 1 /\ n < 10 THEN <<Digits[n + 1]>>
    ELSE ZeroPad(n \div 10, w - 1) \o <<Digits[(n % 10) + 1]>>

--------------------------------------------------------------------------
(* Calendar dates, as datetime.date computes them                          *)

IsLeap(y) == y % 4 = 0 /\ (y % 100 # 0 \/ y % 400 = 0)

DaysInMonth(y, m) ==
    IF m = 2 THEN (IF IsLeap(y) THEN 29 ELSE 28)
    ELSE IF m \in {4, 6, 9, 11} THEN 30 ELSE 31

RECURSIVE DaysBeforeMonth(_, _)
DaysBeforeMonth(y, m) ==
    IF m <= 1 THEN 0 ELSE DaysBeforeMonth(y, m - 1) + DaysInMonth(y, m - 1)

DaysBeforeYear(y) ==
    (y - 1) * 365 + ((y - 1) \div 4) - ((y - 1) \div 100) + ((y - 1) \div 400)

\* date(y, m, d).toordinal()
ToOrdinal(y, m, d) == DaysBeforeYear(y) + DaysBeforeMonth(y, m) + d

RECURSIVE MonthOfDay(_, _, _)
\* The month holding the n-th day (1-based) of year y, searched from month m.
MonthOfDay(y, n, m) ==
    IF n <= DaysBeforeMonth(y, m + 1) THEN m ELSE MonthOfDay(y, n, m + 1)

RECURSIVE YearOfOrdinal(_, _)
YearOfOrdinal(n, y) ==
    IF n <= DaysBeforeYear(y) THEN YearOfOrdinal(n, y - 1)
    ELSE IF n > DaysBeforeYear(y + 1) THEN YearOfOrdinal(n, y + 1)
    ELSE y

\* date.fromordinal(n) as <<y, m, d>>.
FromOrdinal(n) ==
    LET y == YearOfOrdinal(n, 2025)
        r == n - DaysBeforeYear(y)
        m == MonthOfDay(y, r, 1)
    IN  <<y, m, r - DaysBeforeMonth(y, m)>>

\* date.isoformat(): YYYY-MM-DD, zero-padded.
IsoFormat(ymd) ==
    ZeroPad(ymd[1], 4) \o <<"-">> \o ZeroPad(ymd[2], 2) \o <<"-">> \o ZeroPad(ymd[3], 2)

\* A one- or two-character field of strptime at position i of s, as its
\* regex alternatives try it: two digits in lo..hi first, then one digit
\* 1..9 (and, with sp, a space and one digit).  <<value, next position>>,
\* or <<>> when no alternative matches.
TwoDigitField(s, i, lo, hi, oneLo, sp) ==
    IF i + 1 <= Len(s) /\ IsDigit(s[i]) /\ IsDigit(s[i + 1])
       /\ NumVal(<<s[i], s[i + 1]>>) >= lo /\ NumVal(<<s[i], s[i + 1]>>) <= hi
    THEN <<NumVal(<<s[i], s[i + 1]>>), i + 2>>
    ELSE IF i <= Len(s) /\ IsDigit(s[i]) /\ DigitVal(s[i]) >= oneLo
    THEN <<DigitVal(s[i]), i + 1>>
    ELSE IF sp /\ i + 1 <= Len(s) /\ s[i] = " " /\ IsDigit(s[i + 1])
            /\ DigitVal(s[i + 1]) >= 1
    THEN <<DigitVal(s[i + 1]), i + 2>>
    ELSE <<>>

\* datetime.strptime(s, "%Y-%m-%d").date() as <<y, m, d>>, or <<>> for the
\* ValueError (no match, unconverted data, day out of range for the month).
StrptimeYmd(s) ==
    IF ~(Len(s) >= 5 /\ AllDigits(SubSeq(s, 1, 4)) /\ s[5] = "-") THEN <<>>
    ELSE LET y == NumVal(SubSeq(s, 1, 4))
             mo == TwoDigitField(s, 6, 1, 12, 1, FALSE)
         IN  IF mo = <<>> \/ y < 1 THEN <<>>
             ELSE IF ~(mo[2] <= Len(s) /\ s[mo[2]] = "-") THEN <<>>
             ELSE LET da == TwoDigitField(s, mo[2] + 1, 1, 31, 1, TRUE)
                  IN  IF da = <<>> THEN <<>>
                      ELSE IF da[2] # Len(s) + 1 THEN <<>>
                      ELSE IF da[1] > DaysInMonth(y, mo[1]) THEN <<>>
                      ELSE <<y, mo[1], da[1]>>

--------------------------------------------------------------------------
(* Regular expressions: the fragment of Python's re syntax that the bot    *)
(* documents of the model use: literal characters, "." (any character),    *)
(* a postfix "+" (one or more of the preceding atom) and "|" (alternation  *)
(* of the whole pattern).  A "+" with nothing to repeat is a compile       *)
(* error, as in re.compile.                                                *)

RECURSIVE SplitOnBar(_, _)
\* The alternatives of a pattern: the text between top-level "|".
SplitOnBar(p, cur) ==
    IF p = <<>> THEN <<cur>>
    ELSE IF Head(p) = "|" THEN <<cur>> \o SplitOnBar(Tail(p), <<>>)
    ELSE SplitOnBar(Tail(p), Append(cur, Head(p)))

\* The mark of a pattern re.compile rejects.
ErrAtom == [c |-> "error", plus |-> FALSE]

\* An atom put before the atoms of the rest of an alternative.
ConsAtom(atom, rest) == IF rest = <<ErrAtom>> THEN <<ErrAtom>> ELSE <<atom>> \o rest

RECURSIVE ParseAtoms(_)
\* One alternative as a sequence of atoms [c, plus]; <<ErrAtom>> for a
\* pattern re.compile rejects ("nothing to repeat", "multiple repeat").
ParseAtoms(a) ==
    IF a = <<>> THEN <<>>
    ELSE IF Head(a) = "+" THEN <<ErrAtom>>
    ELSE IF Len(a) >= 2 /\ a[2] = "+"
    THEN ConsAtom([c |-> Head(a), plus |-> TRUE], ParseAtoms(Tail(Tail(a))))
    ELSE ConsAtom([c |-> Head(a), plus |-> FALSE], ParseAtoms(Tail(a)))

AltOk(atoms) == atoms # <<ErrAtom>>

\* re.compile(pattern, re.IGNORECASE): the compiled alternatives, in order.
ReCompile(pattern) ==
    LET alts == SplitOnBar(pattern, <<>>)
    IN  [i \in 1..Len(alts) |-> ParseAtoms(alts[i])]

CompileOk(pattern) ==
    LET r == ReCompile(pattern) IN \A i \in 1..Len(r) : AltOk(r[i])

\* One atom against one character, under re.IGNORECASE.
AtomMatches(atom, ch) == atom.c = "." \/ Lower(atom.c) = Lower(ch)

RECURSIVE MatchAt(_, _, _, _)
\* atoms[k..] match a run of s that starts at position i.
MatchAt(atoms, k, s, i) ==
    IF k > Len(atoms) THEN TRUE
    ELSE IF i > Len(s) THEN FALSE
    ELSE IF ~AtomMatches(atoms[k], s[i]) THEN FALSE
    ELSE IF atoms[k].plus
         THEN MatchAt(atoms, k, s, i + 1) \/ MatchAt(atoms, k + 1, s, i + 1)
         ELSE MatchAt(atoms, k + 1, s, i + 1)

\* regex.search(s): an unanchored match anywhere in s.
ReSearch(regex, s) ==
    \E a \in 1..Len(regex) : \E i \in 1..(Len(s) + 1) : MatchAt(regex[a], 1, s, i)

--------------------------------------------------------------------------
(* Bot pattern registry: load_bot_patterns                                 *)

\* A document entry is [name, spec]; spec is a bare string
\*   [kind |-> "str", s |-> text]
\* or an object
\*   [kind |-> "obj", patterns |-> P, is_llm |-> "missing" | "true" | "false"]
\* where P is <<"missing">>, <<"str", text>> or <<"list", seq of texts>>.

\* The normalisation without the isinstance(pats, str) step: the list
\* comprehension then iterates the characters of a single-string value.
NormalizePatternsNoStr(spec) ==
    IF spec.kind = "obj"
    THEN IF spec.patterns[1] = "missing" THEN <<>>
         ELSE IF spec.patterns[1] = "str"
         THEN [i \in 1..Len(spec.patterns[2]) |-> <<spec.patterns[2][i]>>]
         ELSE spec.patterns[2]
    ELSE <<spec.s>>

\* spec.get("patterns", []) normalised to a list of strings.
NormalizePatterns(spec) ==
    IF spec.kind = "obj"
    THEN IF spec.patterns[1] = "missing" THEN <<>>
         ELSE IF spec.patterns[1] = "str" THEN <<spec.patterns[2]>>
         ELSE spec.patterns[2]
    ELSE <<spec.s>>

\* The fallback to the bot name when no pattern is left.
PatternsOrName(name, pats) == IF pats = <<>> THEN <<name>> ELSE pats

EntryIsLlm(spec) ==
    IF spec.kind = "obj" THEN spec.is_llm # "false" ELSE TRUE

\* "|".join(pats)
CombinedPattern(name, spec) ==
    JoinWith(PatternsOrName(name, NormalizePatterns(spec)), <<"|">>)

\* The BotPattern built for one entry.
BotPattern(entry) ==
    [name |-> entry.name,
     regex |-> ReCompile(CombinedPattern(entry.name, entry.spec)),
     is_llm |-> EntryIsLlm(entry.spec),
     ip_ranges |-> <<>>]

\* load_bot_patterns raises when a combined pattern does not compile.
LoadFails(d) ==
    \E i \in 1..Len(d) : ~CompileOk(CombinedPattern(d[i].name, d[i].spec))

\* The list load_bot_patterns returns: one BotPattern per entry, in the
\* document's iteration order.
load_bot_patterns(d) == [i \in 1..Len(d) |-> BotPattern(d[i])]

--------------------------------------------------------------------------
(* Classifier: classify_user_agent                                         *)

Unknown == <<<<"U", "n", "k", "n", "o", "w", "n">>, FALSE, FALSE>>

RECURSIVE ClassifyFrom(_, _, _)
\* The for loop over bot_patterns from index k on: first match returns.
ClassifyFrom(ua, bps, k) ==
    IF k > Len(bps) THEN Unknown
    ELSE IF ReSearch(bps[k].regex, ua) THEN <<bps[k].name, TRUE, bps[k].is_llm>>
    ELSE ClassifyFrom(ua, bps, k + 1)

RECURSIVE ClassifyLastFrom(_, _, _)
\* A classifier whose loop does not return at the first match: the last
\* matching definition wins.
ClassifyLastFrom(ua, bps, k) ==
    IF k < 1 THEN Unknown
    ELSE IF ReSearch(bps[k].regex, ua) THEN <<bps[k].name, TRUE, bps[k].is_llm>>
    ELSE ClassifyLastFrom(ua, bps, k - 1)

classify_last_match(ua, bps) ==
    IF ~Truthy(ua) THEN Unknown ELSE ClassifyLastFrom(ua, bps, Len(bps))

classify_user_agent(ua, bps) ==
    IF ~Truthy(ua) THEN Unknown ELSE ClassifyFrom(ua, bps, 1)

--------------------------------------------------------------------------
(* The registry and the classifier as a state machine                      *)

MaxDocLen == 2

BotNames == { <<"G", "b">>, <<"C", "b">>, <<"a", "+", "b">> }

EntrySpecs ==
    { [kind |-> "str", s |-> <<"g", "b">>],
      [kind |-> "str", s |-> <<"b">>],
      [kind |-> "obj", patterns |-> <<"missing">>, is_llm |-> "missing"],
      [kind |-> "obj", patterns |-> <<"list", <<>>>>, is_llm |-> "true"],
      [kind |-> "obj", patterns |-> <<"str", <<"c", "b">>>>, is_llm |-> "false"],
      [kind |-> "obj", patterns |-> <<"list", << <<"x", "y">>, <<"G", "B">> >> >>,
       is_llm |-> "missing"],
      [kind |-> "obj", patterns |-> <<"str", <<"+">>>>, is_llm |-> "true"],
      [kind |-> "obj", patterns |-> <<"str", <<"g", "b">>>>, is_llm |-> "missing"],
      [kind |-> "obj", patterns |-> <<"list", << <<"g", "b">> >> >>,
       is_llm |-> "missing"],
      [kind |-> "obj", patterns |-> <<"str", <<>>>>, is_llm |-> "false"] }

Entries == [name : BotNames, spec : EntrySpecs]

\* A JSON object has one value per key: the names of a document are distinct.
Documents ==
    { d \in UNION { [1..n -> Entries] : n \in 1..MaxDocLen } :
        \A i, j \in 1..Len(d) : i # j => d[i].name # d[j].name }

UserAgents ==
    { <<>>, None, <<"x", "G", "B">>, <<"c", "b">>, <<"a", "+", "b">>,
      <<"a", "a", "b">>, <<"x">> }

AggIdle ==
    /\ now = 0
    /\ days_back = 0
    /\ aggregated = "off"
    /\ aggPc = "off"
    /\ rowsRead = <<>>
    /\ bot_totals = <<>>
    /\ bot_daily = <<>>
    /\ bot_paths = <<>>
    /\ bot_is_llm = <<>>
    /\ overall_total = 0
    /\ overall_paths = {}
    /\ report = <<>>

ParseIdle ==
    /\ fields = <<>>
    /\ line = <<>>
    /\ parsed = <<>>
    /\ parsePc = "off"

EtlIdle ==
    /\ objects = <<>>
    /\ calls = <<>>
    /\ inv = <<>>

StreamIdle ==
    /\ gz_bytes = <<>>
    /\ lineNo = 0
    /\ yielded = <<>>
    /\ genPc = "off"

RegIdle ==
    /\ doc = <<>>
    /\ bot_patterns = <<>>
    /\ regPc = "off"
    /\ user_agent = None
    /\ result = <<>>

RegInit ==
    /\ doc \in Documents
    /\ bot_patterns = <<>>
    /\ regPc = "init"
    /\ user_agent = None
    /\ result = <<>>

\* load_bot_patterns(): the compiled list, or the error re.compile raises.
LoadBotPatterns ==
    /\ regPc = "init"
    /\ IF LoadFails(doc)
       THEN /\ regPc' = "error"
            /\ UNCHANGED bot_patterns
       ELSE /\ regPc' = "loaded"
            /\ bot_patterns' = load_bot_patterns(doc)
    /\ UNCHANGED <<doc, user_agent, result>>
    /\ UNCHANGED <<aggVars, parseVars, etlVars, streamVars>>

\* One call classify_user_agent(ua, bot_patterns).
Classify ==
    /\ regPc = "loaded"
    /\ \E ua \in UserAgents :
         /\ user_agent' = ua
         /\ result' = classify_user_agent(ua, bot_patterns)
    /\ UNCHANGED <<doc, bot_patterns, regPc>>
    /\ UNCHANGED <<aggVars, parseVars, etlVars, streamVars>>

RegNext == LoadBotPatterns \/ Classify

ClassifyInit == RegInit /\ AggIdle /\ ParseIdle /\ EtlIdle /\ StreamIdle

SpecClassify == ClassifyInit /\ [][RegNext]_vars

--------------------------------------------------------------------------
(* Claims about the registry and the classifier                            *)

\* The metacharacters of the modelled regex fragment.
IsLiteral(p) == \A i \in 1..Len(p) : p[i] \notin {"+", ".", "|"}

\* The indices of the definitions whose matcher finds a match in ua.
MatchingDefs(ua) ==
    { i \in 1..Len(bot_patterns) : ReSearch(bot_patterns[i].regex, ua) }

SetMin(S) == CHOOSE x \in S : \A y \in S : x <= y

\* C1: classify_user_agent returns (name, true, is_llm) of the first
\* definition, in document order, whose case-insensitive matcher finds an
\* unanchored substring match in the agent; it returns Unknown for an empty
\* or absent agent and when no definition matches.  A literal pattern
\* matches exactly when its lower-cased text occurs in the lower-cased agent.
C1_FirstMatchWins ==
    (regPc = "loaded" /\ result # <<>>) =>
        /\ Len(bot_patterns) = Len(doc)
        /\ \A i \in 1..Len(doc) :
              LET p == CombinedPattern(doc[i].name, doc[i].spec)
              IN  (Truthy(user_agent) /\ IsLiteral(p)) =>
                      ((i \in MatchingDefs(user_agent))
                          <=> Contains(LowerText(user_agent), LowerText(p)))
        /\ IF ~Truthy(user_agent) \/ MatchingDefs(user_agent) = {}
           THEN result = Unknown
           ELSE LET i == SetMin(MatchingDefs(user_agent))
                IN  result = <<doc[i].name, TRUE, EntryIsLlm(doc[i].spec)>>

\* Two definitions match the agent and the earlier one was returned.
C1_Witness ==
    /\ regPc = "loaded"
    /\ result # <<>>
    /\ Cardinality(MatchingDefs(user_agent)) = 2
    /\ Truthy(user_agent)
    /\ result[1] = doc[1].name
    /\ doc[1].name # doc[2].name

\* C10: after load_bot_patterns, an entry with zero patterns after
\* normalisation is matched by an agent string equal to its own bot name.
C10_SelfReference ==
    regPc = "loaded" =>
        \A i \in 1..Len(doc) :
            NormalizePatterns(doc[i].spec) = <<>> =>
                ReSearch(bot_patterns[i].regex, doc[i].name)

\* The three representations of the entry "N: P": the bare string, the
\* object with a single-string patterns value, the object with a
\* one-element patterns list.
EntryForms(P) ==
    { [kind |-> "str", s |-> P],
      [kind |-> "obj", patterns |-> <<"str", P>>, is_llm |-> "missing"],
      [kind |-> "obj", patterns |-> <<"list", <<P>>>>, is_llm |-> "missing"] }

\* The patterns that occur in the documents of the model.
PatternTexts ==
    { sp.s : sp \in { e \in EntrySpecs : e.kind = "str" } }
        \cup { sp.patterns[2] :
                  sp \in { e \in EntrySpecs :
                              e.kind = "obj" /\ e.patterns[1] = "str" } }

\* C16: for every name N and pattern P the entries N: P, N: {patterns: P}
\* and N: {patterns: [P]} are loaded as one and the same definition, with
\* name N, the matcher compiled from P alone, empty ip_ranges and is_llm
\* true (and they fail to compile together); a loaded definition has
\* is_llm false only when its entry is an object that sets is_llm to a
\* false value.
C16_FormsNormalizeAlike ==
    regPc \in {"loaded", "error"} =>
        /\ \A i \in 1..Len(doc) : \A P \in PatternTexts :
              doc[i].spec \in EntryForms(P) =>
                  \A f \in EntryForms(P) :
                      LET e == [name |-> doc[i].name, spec |-> f]
                      IN  /\ CombinedPattern(e.name, f) = P
                          /\ regPc = "loaded" =>
                                /\ BotPattern(e) = bot_patterns[i]
                                /\ bot_patterns[i].name = doc[i].name
                                /\ bot_patterns[i].regex = ReCompile(P)
                                /\ bot_patterns[i].ip_ranges = <<>>
                                /\ bot_patterns[i].is_llm = TRUE
        /\ regPc = "loaded" =>
              \A i \in 1..Len(doc) :
                  bot_patterns[i].is_llm = FALSE =>
                      (doc[i].spec.kind = "obj" /\ doc[i].spec.is_llm = "false")

\* A loaded document holds the same pattern of two characters once as a
\* single-string patterns value and once as a one-element list, the two
\* definitions have the same matcher, and an agent was classified.
C16_Witness ==
    /\ regPc = "loaded"
    /\ Len(doc) = 2
    /\ doc[1].spec.kind = "obj" /\ doc[1].spec.patterns[1] = "str"
    /\ doc[2].spec.kind = "obj" /\ doc[2].spec.patterns[1] = "list"
    /\ \E P \in PatternTexts :
          /\ Len(P) = 2
          /\ doc[1].spec \in EntryForms(P)
          /\ doc[2].spec \in EntryForms(P)
          /\ bot_patterns[1].regex = bot_patterns[2].regex
    /\ result # <<>>

--------------------------------------------------------------------------
(* Aggregator: analyze_aggregated_csv                                      *)

\* Python dicts keep insertion order: a dict is a sequence of [k, v] items.
DictHas(d, k) == \E i \in 1..Len(d) : d[i].k = k

DictGet(d, k, default) ==
    IF DictHas(d, k) THEN d[CHOOSE i \in 1..Len(d) : d[i].k = k].v ELSE default

\* d[k] = v: a new key goes last, an existing key keeps its place.
DictSet(d, k, v) ==
    IF DictHas(d, k)
    THEN [i \in 1..Len(d) |-> IF d[i].k = k THEN [k |-> k, v |-> v] ELSE d[i]]
    ELSE Append(d, [k |-> k, v |-> v])

\* d[k] += 1 on a defaultdict(int)
DictInc(d, k) == DictSet(d, k, DictGet(d, k, 0) + 1)

\* d[k1][k2] += 1 on a defaultdict of defaultdict(int)
DictInc2(d, k1, k2) == DictSet(d, k1, DictInc(DictGet(d, k1, <<>>), k2))

\* What the loop body decides for one row: whether it is counted and, if
\* so, under which bot, date text and path.
RowOutcome(row, start_date, bps) ==
    LET date_str == Strip(OrEmpty(row.date))
        ymd == StrptimeYmd(date_str)
        ua == Strip(OrEmpty(row.user_agent))
        p0 == Strip(OrEmpty(row.path))
        cls == classify_user_agent(ua, bps)
    IN  [counted |-> /\ date_str # <<>>
                     /\ ymd # <<>>
                     /\ ~(ToOrdinal(ymd[1], ymd[2], ymd[3]) < start_date)
                     /\ cls[2],
         bot |-> cls[1], is_llm |-> cls[3], date_str |-> date_str,
         path |-> IF p0 = <<>> THEN <<"/">> ELSE p0]

\* start_date = now - timedelta(days=days_back)
StartDate(n, db) == n - db

RECURSIVE InsertDescTiesFirst(_, _)
\* An insertion that puts an element before the elements of equal key.
InsertDescTiesFirst(sorted, e) ==
    IF sorted = <<>> THEN <<e>>
    ELSE IF Head(sorted).key > e.key
    THEN <<Head(sorted)>> \o InsertDescTiesFirst(Tail(sorted), e)
    ELSE <<e>> \o sorted

RECURSIVE SortedDescTiesReversed(_)
\* A descending sort that reverses the elements of equal key (sort
\* ascending, then reverse).
SortedDescTiesReversed(pairs) ==
    IF pairs = <<>> THEN <<>>
    ELSE InsertDescTiesFirst(SortedDescTiesReversed(SubSeq(pairs, 1, Len(pairs) - 1)),
                             pairs[Len(pairs)])

RECURSIVE InsertDesc(_, _)
\* e inserted after every element whose key is >= its own.
InsertDesc(sorted, e) ==
    IF sorted = <<>> THEN <<e>>
    ELSE IF Head(sorted).key >= e.key
    THEN <<Head(sorted)>> \o InsertDesc(Tail(sorted), e)
    ELSE <<e>> \o sorted

RECURSIVE SortedDesc(_)
\* sorted(pairs, key=..., reverse=True): descending by key, stable.
SortedDesc(pairs) ==
    IF pairs = <<>> THEN <<>>
    ELSE InsertDesc(SortedDesc(SubSeq(pairs, 1, Len(pairs) - 1)), pairs[Len(pairs)])

RECURSIVE InsertByText(_, _)
InsertByText(sorted, e) ==
    IF sorted = <<>> THEN <<e>>
    ELSE IF TextLess(e.k, Head(sorted).k) THEN <<e>> \o sorted
    ELSE <<Head(sorted)>> \o InsertByText(Tail(sorted), e)

RECURSIVE SortedItems(_)
\* sorted(d.items()): ascending by the key text (the keys are distinct).
SortedItems(d) ==
    IF d = <<>> THEN <<>>
    ELSE InsertByText(SortedItems(SubSeq(d, 1, Len(d) - 1)), d[Len(d)])

\* The daily time series of one bot.
DailySeries(daily_dict) ==
    LET items == SortedItems(daily_dict)
    IN  [i \in 1..Len(items) |-> [date |-> items[i].k, requests |-> items[i].v]]

\* The path ranking of one bot.
TopPaths(paths_dict) ==
    LET srt == SortedDesc([i \in 1..Len(paths_dict) |->
                   [item |-> [path |-> paths_dict[i].k, requests |-> paths_dict[i].v],
                    key |-> paths_dict[i].v]])
    IN  [i \in 1..Len(srt) |-> srt[i].item]

\* bots_report before the final sort: one summary per key of bot_totals.
BotsReport(totals, daily, paths, isllm) ==
    [i \in 1..Len(totals) |->
        [bot_name |-> totals[i].k,
         is_llm |-> DictGet(isllm, totals[i].k, TRUE),
         total_requests |-> totals[i].v,
         daily_requests |-> DailySeries(DictGet(daily, totals[i].k, <<>>)),
         top_paths |-> TopPaths(DictGet(paths, totals[i].k, <<>>))]]

\* bots_report.sort(key=total_requests, reverse=True)
SortBots(bots) ==
    LET srt == SortedDesc([i \in 1..Len(bots) |->
                   [item |-> bots[i], key |-> bots[i].total_requests]])
    IN  [i \in 1..Len(srt) |-> srt[i].item]

\* The report dict (generated_at, a clock reading, is left out).
BuildReport(n, db, totals, daily, paths, isllm, ototal, opaths) ==
    [window |-> [from |-> IsoFormat(FromOrdinal(StartDate(n, db))),
                 to |-> IsoFormat(FromOrdinal(n))],
     overall |-> [total_requests |-> ototal,
                  unique_bots |-> Len(totals),
                  unique_paths |-> Cardinality(opaths)],
     bots |-> SortBots(BotsReport(totals, daily, paths, isllm))]

\* The report returned when the aggregated object does not exist.
EmptyReport(n, db) == BuildReport(n, db, <<>>, <<>>, <<>>, <<>>, 0, {})

--------------------------------------------------------------------------
(* The aggregator as a state machine                                       *)

MaxRows == 3

T_2025_01_01 == <<"2", "0", "2", "5", "-", "0", "1", "-", "0", "1">>
T_2025_01_02 == <<"2", "0", "2", "5", "-", "0", "1", "-", "0", "2">>
T_2025_1_02 == <<"2", "0", "2", "5", "-", "1", "-", "0", "2">>
T_2025_01_03 == <<"2", "0", "2", "5", "-", "0", "1", "-", "0", "3">>
T_2025_13_01 == <<"2", "0", "2", "5", "-", "1", "3", "-", "0", "1">>

\* now, and the days_back values of the model.
NowDate == ToOrdinal(2025, 1, 2)
DaysBackChoices == {0, 1}

\* bot_map.json of the aggregator runs.
AggDoc ==
    << [name |-> <<"G", "b">>, spec |-> [kind |-> "str", s |-> <<"g", "b">>]],
       [name |-> <<"C", "b">>,
        spec |-> [kind |-> "obj", patterns |-> <<"list", << <<"c", "b">> >> >>,
                  is_llm |-> "false"]] >>

UaGb == <<"x", " ", "G", "b">>
UaCb == <<"c", "b", " ">>
UaNone == <<"x">>

\* The rows the aggregated CSV may hold.
CsvRows ==
    { [date |-> T_2025_01_01, user_agent |-> UaGb, path |-> <<"/", "a">>],
      [date |-> T_2025_01_02, user_agent |-> UaGb, path |-> <<"/", "a">>],
      [date |-> T_2025_01_02, user_agent |-> UaGb, path |-> <<"/", "b">>],
      [date |-> T_2025_1_02, user_agent |-> UaGb, path |-> <<"/", "a">>],
      [date |-> T_2025_01_03, user_agent |-> UaGb, path |-> <<"/", "a">>],
      [date |-> T_2025_01_02, user_agent |-> UaCb, path |-> <<"/", "a">>],
      [date |-> <<" ">> \o T_2025_01_02, user_agent |-> UaCb,
       path |-> <<"/", "b", " ">>],
      [date |-> T_2025_01_01, user_agent |-> UaCb, path |-> <<>>],
      [date |-> T_2025_01_02, user_agent |-> UaNone, path |-> <<"/", "a">>],
      [date |-> T_2025_01_02, user_agent |-> None, path |-> <<"/", "b">>],
      [date |-> T_2025_13_01, user_agent |-> UaGb, path |-> <<"/", "a">>],
      [date |-> None, user_agent |-> UaGb, path |-> <<"/", "a">>] }

\* The error codes with which get_object fails in the model.
StorageErrors == {"NoSuchKey", "404", "AccessDenied", "InternalError"}

AggInit ==
    /\ doc = AggDoc
    /\ bot_patterns = load_bot_patterns(AggDoc)
    /\ regPc = "loaded"
    /\ user_agent = None
    /\ result = <<>>
    /\ now = NowDate
    /\ days_back \in DaysBackChoices
    /\ aggregated \in {"present"} \cup StorageErrors
    /\ aggPc = "start"
    /\ rowsRead = <<>>
    /\ bot_totals = <<>>
    /\ bot_daily = <<>>
    /\ bot_paths = <<>>
    /\ bot_is_llm = <<>>
    /\ overall_total = 0
    /\ overall_paths = {}
    /\ report = <<>>

aggCounters == <<bot_totals, bot_daily, bot_paths, bot_is_llm, overall_total,
                 overall_paths>>

\* Only the 404 code is taken for a missing object.
NotFoundOnly404 == {"404"}

\* The error codes the aggregator takes for "no aggregated CSV yet".
NotFoundCodes == {"NoSuchKey", "404"}

\* s3_client.get_object: the object exists, or the call raises ClientError
\* with the code of aggregated.
AggGetObject ==
    /\ aggPc = "start"
    /\ IF aggregated = "present"
       THEN aggPc' = "scan" /\ UNCHANGED report
       ELSE IF aggregated \in NotFoundCodes
       THEN aggPc' = "done" /\ report' = EmptyReport(now, days_back)
       ELSE aggPc' = "raised" /\ UNCHANGED report
    /\ UNCHANGED <<now, days_back, aggregated, rowsRead>>
    /\ UNCHANGED aggCounters
    /\ UNCHANGED <<regVars, parseVars, etlVars, streamVars>>

\* One iteration of "for row in reader".
AggRow ==
    /\ aggPc = "scan"
    /\ Len(rowsRead) < MaxRows
    /\ \E row \in CsvRows :
         LET o == RowOutcome(row, StartDate(now, days_back), bot_patterns)
         IN  /\ rowsRead' = Append(rowsRead, row)
             /\ IF o.counted
                THEN /\ bot_totals' = DictInc(bot_totals, o.bot)
                     /\ bot_daily' = DictInc2(bot_daily, o.bot, o.date_str)
                     /\ bot_paths' = DictInc2(bot_paths, o.bot, o.path)
                     /\ bot_is_llm' = DictSet(bot_is_llm, o.bot, o.is_llm)
                     /\ overall_total' = overall_total + 1
                     /\ overall_paths' = overall_paths \cup {o.path}
                ELSE UNCHANGED aggCounters
    /\ UNCHANGED <<now, days_back, aggregated, aggPc, report>>
    /\ UNCHANGED <<regVars, parseVars, etlVars, streamVars>>

\* The reader is exhausted: the report is built and returned.
AggFinish ==
    /\ aggPc = "scan"
    /\ aggPc' = "done"
    /\ report' = BuildReport(now, days_back, bot_totals, bot_daily, bot_paths,
                             bot_is_llm, overall_total, overall_paths)
    /\ UNCHANGED <<now, days_back, aggregated, rowsRead>>
    /\ UNCHANGED aggCounters
    /\ UNCHANGED <<regVars, parseVars, etlVars, streamVars>>

AggNext == AggGetObject \/ AggRow \/ AggFinish

AggregatorInit == AggInit /\ ParseIdle /\ EtlIdle /\ StreamIdle

SpecAgg == AggregatorInit /\ [][AggNext]_vars

--------------------------------------------------------------------------
(* Claims about the aggregator                                             *)

\* The calendar date a row's date column denotes, <<>> when it has none.
RowYmd(row) == StrptimeYmd(Strip(OrEmpty(row.date)))

RowOrdinal(row) == ToOrdinal(RowYmd(row)[1], RowYmd(row)[2], RowYmd(row)[3])

\* The classification of a row's agent column.
RowClass(row) == classify_user_agent(Strip(OrEmpty(row.user_agent)), bot_patterns)

RowPath(row) ==
    IF Strip(OrEmpty(row.path)) = <<>> THEN <<"/">> ELSE Strip(OrEmpty(row.path))

\* The row has a calendar date on or after the window's start and an agent
\* attributed to a bot.
Attributed(row) ==
    /\ RowYmd(row) # <<>>
    /\ RowOrdinal(row) >= now - days_back
    /\ RowClass(row)[2]

\* The row is attributed and its date lies inside [now - days_back, now].
InWindow(row) == Attributed(row) /\ RowOrdinal(row) <= now

RowIndices == 1..Len(rowsRead)

\* C2: every row that contributes to a count has its date inside the
\* inclusive window [now - days_back, now]: the overall total and every
\* per-bot total count exactly the attributed rows dated in the window.
C2_WindowInclusive ==
    aggPc \in {"scan", "done"} =>
        /\ overall_total = Cardinality({i \in RowIndices : InWindow(rowsRead[i])})
        /\ \A b \in 1..Len(bot_totals) :
              bot_totals[b].v =
                  Cardinality({i \in RowIndices :
                                  /\ InWindow(rowsRead[i])
                                  /\ RowClass(rowsRead[i])[1] = bot_totals[b].k})

\* C7: a row whose agent is not attributed to a bot, or whose date is
\* missing, unparseable or outside the window [now - days_back, now], leaves
\* every aggregate unchanged: the per-bot totals, daily counts, path counts
\* and is-LLM map, the overall total and the set of distinct paths.
C7_SkippedRowFrame ==
    [][(/\ aggPc = "scan"
        /\ rowsRead' # rowsRead
        /\ ~InWindow(rowsRead'[Len(rowsRead')]))
          => UNCHANGED aggCounters]_vars

\* C8: for every bot of the report, daily_requests holds exactly one entry
\* per calendar date on which the bot has counted rows, with the number of
\* those rows, in strictly ascending calendar-date order.
C8_DailyPerCalendarDate ==
    (aggPc = "done" /\ report # <<>>) =>
        \A b \in 1..Len(report.bots) :
            LET name == report.bots[b].bot_name
                ds == report.bots[b].daily_requests
                mine == {i \in RowIndices :
                            Attributed(rowsRead[i]) /\ RowClass(rowsRead[i])[1] = name}
                ord(e) == LET t == StrptimeYmd(e.date) IN ToOrdinal(t[1], t[2], t[3])
            IN  /\ \A i \in 1..Len(ds) : StrptimeYmd(ds[i].date) # <<>>
                /\ \A i, j \in 1..Len(ds) : i < j => ord(ds[i]) < ord(ds[j])
                /\ {ord(ds[i]) : i \in 1..Len(ds)} = {RowOrdinal(rowsRead[i]) : i \in mine}
                /\ \A i \in 1..Len(ds) :
                      ds[i].requests =
                          Cardinality({k \in mine : RowOrdinal(rowsRead[k]) = ord(ds[i])})

\* The index of the first counted row of a bot, and of a path of a bot.
FirstSeenBot(name) ==
    SetMin({i \in RowIndices :
               Attributed(rowsRead[i]) /\ RowClass(rowsRead[i])[1] = name})

FirstSeenPath(name, path) ==
    SetMin({i \in RowIndices :
               /\ Attributed(rowsRead[i])
               /\ RowClass(rowsRead[i])[1] = name
               /\ RowPath(rowsRead[i]) = path})

\* C9: the bots of the report are in non-increasing order of
\* total_requests and each bot's top_paths in non-increasing order of
\* requests; entries with equal counts are in first-seen order of the rows.
C9_StableDescending ==
    (aggPc = "done" /\ report # <<>>) =>
        LET bots == report.bots
        IN  /\ \A i, j \in 1..Len(bots) : i < j =>
                  /\ bots[i].total_requests >= bots[j].total_requests
                  /\ bots[i].total_requests = bots[j].total_requests =>
                        FirstSeenBot(bots[i].bot_name) < FirstSeenBot(bots[j].bot_name)
            /\ \A b \in 1..Len(bots) :
                  LET tp == bots[b].top_paths
                  IN  \A i, j \in 1..Len(tp) : i < j =>
                          /\ tp[i].requests >= tp[j].requests
                          /\ tp[i].requests = tp[j].requests =>
                                FirstSeenPath(bots[b].bot_name, tp[i].path)
                                    < FirstSeenPath(bots[b].bot_name, tp[j].path)

\* Two bots tie, and the one seen first (the later one of the bot map) leads.
C9_Witness ==
    /\ aggPc = "done"
    /\ report # <<>>
    /\ Len(report.bots) = 2
    /\ report.bots[1].total_requests = report.bots[2].total_requests
    /\ report.bots[1].bot_name = <<"C", "b">>

\* The window of a run, as the report gives it.
WindowOf(n, db) ==
    [from |-> IsoFormat(FromOrdinal(n - db)), to |-> IsoFormat(FromOrdinal(n))]

\* A structurally complete report without any request.
IsEmptyReport(r) ==
    /\ r # <<>>
    /\ r.overall = [total_requests |-> 0, unique_bots |-> 0, unique_paths |-> 0]
    /\ r.bots = <<>>
    /\ r.window = WindowOf(now, days_back)

\* C14: analyze_aggregated_csv returns a structurally complete empty report
\* when the aggregated object does not exist (error code NoSuchKey or 404)
\* and when it exists without data rows; with any other storage error the
\* call raises and returns no report.
C14_EmptyReportOrRaise ==
    /\ (aggregated \in {"NoSuchKey", "404"} /\ aggPc \notin {"off", "start"}) =>
            (aggPc = "done" /\ IsEmptyReport(report))
    /\ (aggregated = "present" /\ aggPc = "done" /\ rowsRead = <<>>) =>
            IsEmptyReport(report)
    /\ (aggregated \in {"AccessDenied", "InternalError"}
          /\ aggPc \notin {"off", "start"}) =>
            (aggPc = "raised" /\ report = <<>>)

\* The aggregated object does not exist and the run has returned.
C14_Witness ==
    aggregated = "NoSuchKey" /\ aggPc = "done" /\ report # <<>>

RECURSIVE SumRequests(_)
\* The sum of the "requests" of a list of report items.
SumRequests(items) ==
    IF items = <<>> THEN 0 ELSE Head(items).requests + SumRequests(Tail(items))

RECURSIVE SumTotals(_)
\* The sum of the total_requests of a list of bot summaries.
SumTotals(bots) ==
    IF bots = <<>> THEN 0 ELSE Head(bots).total_requests + SumTotals(Tail(bots))

\* The distinct paths over the top_paths of all bots of a report.
ReportPaths(bots) ==
    UNION { { bots[b].top_paths[j].path : j \in 1..Len(bots[b].top_paths) } :
              b \in 1..Len(bots) }

\* The counters of a report agree with each other: the sums per bot, the
\* number of bots and the number of distinct paths.
CountersAgree(r) ==
    /\ r.overall.total_requests = SumTotals(r.bots)
    /\ \A b \in 1..Len(r.bots) :
          /\ r.bots[b].total_requests = SumRequests(r.bots[b].daily_requests)
          /\ r.bots[b].total_requests = SumRequests(r.bots[b].top_paths)
          /\ r.bots[b].total_requests >= 1
    /\ r.overall.unique_bots = Len(r.bots)
    /\ r.overall.unique_paths = Cardinality(ReportPaths(r.bots))

\* C17: in the report of any sequence of rows, overall.total_requests is
\* the sum of the bots' total_requests and the number of rows read that are
\* attributed to a bot and dated inside the window [now - days_back, now];
\* every bot's total_requests is the sum of its daily_requests, the sum of
\* its top_paths and at least 1; overall.unique_bots is the length of the
\* bots list and overall.unique_paths the number of distinct paths over all
\* bots' top_paths, an empty path being counted as "/".
C17_CountersConsistent ==
    (aggPc = "done" /\ report # <<>>) =>
        /\ CountersAgree(report)
        /\ report.overall.total_requests =
              Cardinality({i \in RowIndices : InWindow(rowsRead[i])})
        /\ \A i \in RowIndices :
              InWindow(rowsRead[i]) =>
                  IF Strip(OrEmpty(rowsRead[i].path)) = <<>>
                  THEN <<"/">> \in ReportPaths(report.bots)
                  ELSE Strip(OrEmpty(rowsRead[i].path)) \in ReportPaths(report.bots)

--------------------------------------------------------------------------
(* Line parser: parse_log_line                                             *)

\* s[i], or "" (no character) past the end.
At(s, i) == IF i >= 1 /\ i <= Len(s) THEN s[i] ELSE ""

\* The character classes of the expressions: \S, \s, \d, [^"], [^\]].
InClass(cls, c) ==
    CASE cls = "S" -> ~IsSpace(c)
      [] cls = "s" -> IsSpace(c)
      [] cls = "d" -> IsDigit(c)
      [] cls = "nq" -> c # "\""
      [] cls = "nb" -> c # "]"

\* The end of the longest run of characters of class cls that starts at i:
\* the first position >= i whose character is not in the class.
SpanEnd(s, i, cls) ==
    IF i > Len(s) THEN i
    ELSE CHOOSE j \in i..(Len(s) + 1) :
            /\ (j = Len(s) + 1 \/ ~InClass(cls, s[j]))
            /\ \A k \in i..(j - 1) : InClass(cls, s[k])

\* The first position >= i where sep starts in s, 0 when there is none.
FindFrom(s, sep, i) ==
    IF \E j \in i..(Len(s) - Len(sep) + 1) : Slice(s, j, j + Len(sep)) = sep
    THEN SetMin({j \in i..(Len(s) - Len(sep) + 1) : Slice(s, j, j + Len(sep)) = sep})
    ELSE 0

RECURSIVE SplitOn(_, _)
RECURSIVE SplitAt(_, _, _)
\* The split of s at the occurrence of sep found at j (0: none).
SplitAt(s, sep, j) ==
    IF j = 0 THEN <<s>>
    ELSE <<Slice(s, 1, j)>> \o SplitOn(Slice(s, j + Len(sep), Len(s) + 1), sep)

\* s.split(sep) for a non-empty sep.
SplitOn(s, sep) == SplitAt(s, sep, FindFrom(s, sep, 1))

RECURSIVE SplitWhitespace(_)
\* The first token of t, which ends before e, and the tokens after it.
TakeToken(t, e) == <<Slice(t, 1, e)>> \o SplitWhitespace(Slice(t, e, Len(t) + 1))

TokensOf(t) == IF t = <<>> THEN <<>> ELSE TakeToken(t, SpanEnd(t, 1, "S"))

\* s.split(): the maximal runs of non-whitespace.
SplitWhitespace(s) == TokensOf(LStrip(s))

PipeSep == <<" ", "|", " ">>

Run(cls, min) == [kind |-> "run", cls |-> cls, min |-> min, c |-> ""]
Lit(c) == [kind |-> "lit", cls |-> "", min |-> 0, c |-> c]

\* MAIN_LOG_REGEX, element by element.
MainLogRegex ==
    << Run("S", 1), Run("s", 1),            \* 1 ip
       Run("S", 1), Run("s", 1),            \* 3 host
       Run("S", 1), Run("s", 1),            \* 5 ident
       Lit("["), Run("nb", 1), Lit("]"),    \* 8 time
       Run("s", 1), Lit("\""),
       Run("S", 1), Run("s", 1),            \* 12 method
       Run("S", 1), Run("s", 1),            \* 14 path
       Run("nq", 1), Lit("\""),             \* 16 protocol
       Run("s", 1),
       Run("d", 1), Run("s", 1),            \* 19 status
       Run("S", 1), Run("s", 1),            \* 21 body_bytes_sent
       Lit("\""), Run("nq", 0), Lit("\""),  \* 24 referrer
       Run("s", 1),
       Lit("\""), Run("nq", 0), Lit("\"") >> \* 28 user_agent

RECURSIVE Matches(_, _, _, _)
\* steps[k..] can match at position i of s.
Matches(s, steps, k, i) ==
    IF k > Len(steps) THEN TRUE
    ELSE IF steps[k].kind = "lit"
    THEN At(s, i) = steps[k].c /\ Matches(s, steps, k + 1, i + 1)
    ELSE \E j \in (i + steps[k].min)..SpanEnd(s, i, steps[k].cls) :
            Matches(s, steps, k + 1, j)

RECURSIVE LongestEnd(_, _, _, _, _)
\* The largest end j >= lo of the run of step k after which the rest of the
\* expression can match, looked for from j downwards; 0 when there is none.
LongestEnd(s, steps, k, lo, j) ==
    IF j < lo THEN 0
    ELSE IF Matches(s, steps, k + 1, j) THEN j
    ELSE LongestEnd(s, steps, k, lo, j - 1)

\* Where step k, started at position i, ends: a literal takes its character;
\* a greedy quantifier takes the longest run that lets the rest of the
\* expression match.  0 when the step cannot match.
StepEnd(s, steps, k, i) ==
    IF steps[k].kind = "lit"
    THEN (IF At(s, i) = steps[k].c THEN i + 1 ELSE 0)
    ELSE LongestEnd(s, steps, k, i + steps[k].min, SpanEnd(s, i, steps[k].cls))

RECURSIVE MatchSteps(_, _, _, _)
\* The match continued at step k, p holding the start positions of steps
\* 1..k: the start position of every step and the end of the match, or
\* <<>> for no match.
MatchSteps(s, steps, k, p) ==
    IF p[k] = 0 THEN <<>>
    ELSE IF k > Len(steps) THEN p
    ELSE MatchSteps(s, steps, k + 1, Append(p, StepEnd(s, steps, k, p[k])))

\* The named groups of a match with step positions p.
GroupsOf(s, p) ==
    IF p = <<>> THEN <<>>
    ELSE [ip |-> Slice(s, p[1], p[2]), host |-> Slice(s, p[3], p[4]),
          ident |-> Slice(s, p[5], p[6]), time |-> Slice(s, p[8], p[9]),
          method |-> Slice(s, p[12], p[13]), path |-> Slice(s, p[14], p[15]),
          protocol |-> Slice(s, p[16], p[17]), status |-> Slice(s, p[19], p[20]),
          body_bytes_sent |-> Slice(s, p[21], p[22]),
          referrer |-> Slice(s, p[24], p[25]), user_agent |-> Slice(s, p[28], p[29])]

\* MAIN_LOG_REGEX.match(main): the named groups, or <<>> for no match.
MatchMain(s) == GroupsOf(s, MatchSteps(s, MainLogRegex, 1, <<1>>))

MonthAbbr ==
    << <<"j", "a", "n">>, <<"f", "e", "b">>, <<"m", "a", "r">>, <<"a", "p", "r">>,
       <<"m", "a", "y">>, <<"j", "u", "n">>, <<"j", "u", "l">>, <<"a", "u", "g">>,
       <<"s", "e", "p">>, <<"o", "c", "t">>, <<"n", "o", "v">>, <<"d", "e", "c">> >>

\* TIME_FORMAT = "%d/%b/%Y:%H:%M:%S %z", directive by directive.
TIME_FORMAT == <<"%d", "/", "%b", "/", "%Y", ":", "%H", ":", "%M", ":", "%S", " ", "%z">>

\* %b at position i: a month abbreviation, in any case.
MonthField(s, i) ==
    IF i + 2 <= Len(s) /\ (\E k \in 1..12 : MonthAbbr[k] = LowerText(Slice(s, i, i + 3)))
    THEN <<CHOOSE k \in 1..12 : MonthAbbr[k] = LowerText(Slice(s, i, i + 3)), i + 3>>
    ELSE <<>>

\* %Y at position i: four digits.
YearField(s, i) ==
    IF i + 3 <= Len(s) /\ AllDigits(Slice(s, i, i + 4))
    THEN <<NumVal(Slice(s, i, i + 4)), i + 4>>
    ELSE <<>>

\* %z at position i, for the forms +HHMM and +HH:MM: the offset east of UTC
\* in minutes.
OffsetField(s, i) ==
    LET c == IF At(s, i + 3) = ":" THEN 1 ELSE 0
    IN  IF /\ At(s, i) \in {"+", "-"}
           /\ i + 4 + c <= Len(s)
           /\ AllDigits(Slice(s, i + 1, i + 3))
           /\ AllDigits(Slice(s, i + 3 + c, i + 5 + c))
           /\ NumVal(Slice(s, i + 3 + c, i + 5 + c)) <= 59
        THEN <<(IF s[i] = "-" THEN 0 - 1 ELSE 1)
                  * (NumVal(Slice(s, i + 1, i + 3)) * 60
                     + NumVal(Slice(s, i + 3 + c, i + 5 + c))),
               i + 5 + c>>
        ELSE <<>>

\* One element of the format at position i: <<value, next position>>, or
\* <<>> when the text does not match it.
Directive(s, i, d) ==
    CASE d = "%d" -> TwoDigitField(s, i, 1, 31, 1, TRUE)
      [] d = "%b" -> MonthField(s, i)
      [] d = "%Y" -> YearField(s, i)
      [] d = "%H" -> TwoDigitField(s, i, 0, 23, 0, FALSE)
      [] d = "%M" -> TwoDigitField(s, i, 0, 59, 0, FALSE)
      [] d = "%S" -> TwoDigitField(s, i, 0, 61, 0, FALSE)
      [] d = "%z" -> OffsetField(s, i)
      [] d = " " -> IF SpanEnd(s, i, "s") > i THEN <<0, SpanEnd(s, i, "s")>> ELSE <<>>
      [] OTHER -> IF At(s, i) = d THEN <<0, i + 1>> ELSE <<>>

RECURSIVE ParseFormat(_, _, _, _, _)
\* The format continued after element k gave r.
AfterDirective(s, fmt, k, vals, r) ==
    IF r = <<>> THEN <<>>
    ELSE ParseFormat(s, fmt, k + 1, r[2], Append(vals, r[1]))

\* fmt[k..] matched at position i, to the end of s: the values of all the
\* elements, or <<>>.
ParseFormat(s, fmt, k, i, vals) ==
    IF k > Len(fmt) THEN (IF i = Len(s) + 1 THEN vals ELSE <<>>)
    ELSE AfterDirective(s, fmt, k, vals, Directive(s, i, fmt[k]))

\* The datetime built from the values of TIME_FORMAT; <<>> for the
\* ValueError of an impossible date, second or offset.
MakeTimestamp(v) ==
    IF v = <<>> THEN <<>>
    ELSE IF v[5] < 1 \/ v[1] > DaysInMonth(v[5], v[3]) \/ v[11] > 59
            \/ v[13] >= 1440 \/ v[13] <= 0 - 1440
    THEN <<>>
    ELSE [y |-> v[5], m |-> v[3], d |-> v[1], H |-> v[7], M |-> v[9], S |-> v[11],
          off |-> v[13]]

\* datetime.strptime(s, TIME_FORMAT): the local date and time with the
\* offset east of UTC in minutes, or <<>> for the ValueError.
StrptimeLog(s) == MakeTimestamp(ParseFormat(s, TIME_FORMAT, 1, 1, <<>>))

\* int(text): an optional sign and decimal digits; <<>> for the ValueError.
IntOf(t) ==
    LET signed == t # <<>> /\ Head(t) \in {"+", "-"}
        digs == IF signed THEN Tail(t) ELSE t
    IN  IF digs = <<>> \/ ~AllDigits(digs) THEN <<>>
        ELSE <<IF signed /\ Head(t) = "-" THEN 0 - NumVal(digs) ELSE NumVal(digs)>>

\* float(text) for decimal text with at most three fraction digits:
\* <<"float", thousandths>>; <<>> for the ValueError.
FloatOf(t) ==
    LET dot == FindFrom(t, <<".">>, 1)
        ip == IF dot = 0 THEN t ELSE Slice(t, 1, dot)
        fp == IF dot = 0 THEN <<>> ELSE Slice(t, dot + 1, Len(t) + 1)
    IN  IF (ip = <<>> /\ fp = <<>>) \/ ~AllDigits(ip) \/ ~AllDigits(fp) \/ Len(fp) > 3
        THEN <<>>
        ELSE <<"float", NumVal(ip) * 1000
                        + NumVal(fp \o [i \in 1..(3 - Len(fp)) |-> "0"])>>

\* _safe_float(tokens, idx), idx counted from 0: None, or the float.
safe_float(tokens, idx) ==
    IF idx >= Len(tokens) THEN None
    ELSE IF FloatOf(tokens[idx + 1]) = <<>> THEN None
    ELSE FloatOf(tokens[idx + 1])

\* A _safe_token that reads the token after the one asked for.
safe_token_next(tokens, idx) ==
    IF idx + 1 >= Len(tokens) THEN None ELSE tokens[idx + 2]

\* _safe_token(tokens, idx), idx counted from 0.
safe_token(tokens, idx) == IF idx >= Len(tokens) THEN None ELSE tokens[idx + 1]

\* ts.date().isoformat(): the calendar date of the timestamp as written,
\* at its own offset.
DateStr(ts) == IsoFormat(<<ts.y, ts.m, ts.d>>)

\* int(m.group("body_bytes_sent")), -1 on ValueError.
BodyBytes(t) == IF IntOf(t) = <<>> THEN 0 - 1 ELSE IntOf(t)[1]

\* The record built once the expression matched and the timestamp parsed.
BuildRecord(m, ts, tls, rest_tokens) ==
    IF ts = <<>> THEN <<>>
    ELSE [ip |-> m.ip, host |-> m.host, ident |-> m.ident, ts |-> ts,
          date |-> DateStr(ts), method |-> m.method, path |-> m.path,
          protocol |-> m.protocol, status |-> NumVal(m.status),
          body_bytes_sent |-> BodyBytes(m.body_bytes_sent),
          referrer |-> m.referrer, user_agent |-> m.user_agent, tls |-> tls,
          time1 |-> safe_float(rest_tokens, 0),
          time2 |-> safe_float(rest_tokens, 1),
          time3 |-> safe_float(rest_tokens, 2),
          cache_status |-> safe_token(rest_tokens, 3),
          extra_5 |-> safe_token(rest_tokens, 4),
          extra_6 |-> safe_token(rest_tokens, 5),
          extra_7 |-> safe_token(rest_tokens, 6)]

\* The part of parse_log_line after the match of the main segment.
ParseMatched(m, tls, rest_tokens) ==
    IF m = <<>> THEN <<>>
    ELSE BuildRecord(m, StrptimeLog(m.time), tls, rest_tokens)

\* The part of parse_log_line after the split on " | ".
ParseParts(parts) ==
    ParseMatched(MatchMain(parts[1]),
                 IF Len(parts) > 1 THEN Strip(parts[2]) ELSE None,
                 IF Len(parts) > 2 THEN SplitWhitespace(Strip(parts[3])) ELSE <<>>)

\* The part of parse_log_line after line.strip().
ParseStripped(ln) == IF ln = <<>> THEN <<>> ELSE ParseParts(SplitOn(ln, PipeSep))

\* parse_log_line(line): the ParsedLogLine, or <<>> for None.
parse_log_line(raw) == ParseStripped(Strip(raw))

\* The longest decimal text int() converts (sys.int_info
\* default_max_str_digits of the interpreter the code is built for); a longer
\* one is a ValueError.
INT_MAX_STR_DIGITS == 4300

\* int(m.group("status")) raises: the status of a matched line is \d+, so
\* the only ValueError left is the one for too many digits.  The conversion
\* is outside every try block, and it runs only after the expression
\* matched and the timestamp parsed.
StatusRaises(m) ==
    /\ m # <<>>
    /\ StrptimeLog(m.time) # <<>>
    /\ Len(m.status) > INT_MAX_STR_DIGITS

\* parse_log_line(line) raises ValueError instead of returning.
ParseRaises(raw) ==
    /\ Strip(raw) # <<>>
    /\ StatusRaises(MatchMain(SplitOn(Strip(raw), PipeSep)[1]))

--------------------------------------------------------------------------
(* The line parser as a state machine                                      *)

DayTexts ==
    { <<"3", "1", "/", "O", "c", "t", "/", "2", "0", "2", "5">>,
      <<"0", "1", "/", "N", "o", "v", "/", "2", "0", "2", "5">>,
      <<"3", "1", "/", "D", "e", "c", "/", "2", "0", "2", "5">> }

ClockTexts ==
    { <<"2", "3", ":", "3", "0", ":", "0", "0">>,
      <<"0", "0", ":", "1", "5", ":", "0", "0">> }

OffsetTexts ==
    { <<"+", "0", "0", "0", "0">>, <<"-", "0", "5", "0", "0">>,
      <<"+", "0", "5", "3", "0">> }

\* Bracketed timestamps that strptime accepts.
ValidTimes ==
    { d \o <<":">> \o c \o <<" ">> \o o :
        d \in DayTexts, c \in ClockTexts, o \in OffsetTexts }

\* Bracketed timestamps that strptime rejects.
BadTimes ==
    { <<"3", "2", "/", "O", "c", "t", "/", "2", "0", "2", "5", ":",
        "2", "3", ":", "3", "0", ":", "0", "0", " ", "+", "0", "0", "0", "0">>,
      <<"3", "1", "/", "O", "c", "t", "/", "2", "0", "2", "5", ":",
        "2", "3", ":", "3", "0", ":", "0", "0">> }

\* Seven trailing metric tokens, with a timing token that is no number at
\* position 1, at position 0 and at position 2.
TokensA == << <<"0", ".", "5">>, <<"x">>, <<"2">>, <<"H", "I", "T">>,
              <<"e">>, <<"f">>, <<"g">> >>

TokensB == << <<"-">>, <<"2", ".", "2", "5">>, <<"1">>, <<"-">>,
              <<"u">>, <<"v">>, <<"w">> >>

TokensC == << <<"1">>, <<"0", ".", "5">>, <<"y">>, <<"M", "I", "S", "S">>,
              <<"p">>, <<"q">>, <<"r">> >>

\* A line without the delimiter.
NoTrailing == [delim |-> FALSE, tokens |-> <<>>, more |-> FALSE]

\* The trailing segments after the mandatory part: none, the tls segment
\* alone, or the tls segment and k tokens (with or without a fourth segment).
Trailings ==
    {NoTrailing, [delim |-> TRUE, tokens |-> <<>>, more |-> FALSE]}
      \cup { [delim |-> TRUE, tokens |-> SubSeq(t, 1, k), more |-> m] :
                t \in {TokensA, TokensB, TokensC}, k \in 1..7, m \in BOOLEAN }

\* The text of the trailing segments.
TrailingText(tr) ==
    IF ~tr.delim THEN <<>>
    ELSE PipeSep \o <<"T", "L", "S">>
           \o (IF tr.tokens = <<>> THEN <<>>
               ELSE PipeSep \o JoinWith(tr.tokens, <<" ">>))
           \o (IF tr.more THEN PipeSep \o <<"z", "z">> ELSE <<>>)

LineFields ==
    [ip : {<<"1", ".", "2">>}, host : {<<"h">>}, ident : {<<"-">>},
     time : ValidTimes \cup BadTimes,
     method : {<<"G", "E", "T">>}, path : {<<"/", "p">>},
     protocol : {<<"H", "/", "1">>}, status : {<<"2", "0", "0">>},
     bytes : {<<"5", "1">>, <<"-">>},
     referrer : {<<"-">>, <<>>},
     agent : {<<"G", "b">>, <<"a", " ", "|", " ", "b">>, <<>>},
     trailing : {NoTrailing, [delim |-> TRUE, tokens |-> <<>>, more |-> FALSE],
                 [delim |-> TRUE, tokens |-> SubSeq(TokensA, 1, 4), more |-> FALSE]}]

\* One mandatory part, with a timestamp that parses and with one that does
\* not, followed by every choice of trailing segments.
TrailingFields ==
    [ip : {<<"1", ".", "2">>}, host : {<<"h">>}, ident : {<<"-">>},
     time : { <<"0", "1", "/", "N", "o", "v", "/", "2", "0", "2", "5", ":",
                "0", "0", ":", "1", "5", ":", "0", "0", " ", "+", "0", "0", "0", "0">>,
              <<"3", "1", "/", "O", "c", "t", "/", "2", "0", "2", "5", ":",
                "2", "3", ":", "3", "0", ":", "0", "0">> },
     method : {<<"G", "E", "T">>}, path : {<<"/", "p">>},
     protocol : {<<"H", "/", "1">>}, status : {<<"2", "0", "0">>},
     bytes : {<<"5", "1">>}, referrer : {<<"-">>}, agent : {<<"G", "b">>},
     trailing : Trailings]

\* The combined-log line written from the fields.
Render(f) ==
    f.ip \o <<" ">> \o f.host \o <<" ">> \o f.ident \o <<" ", "[">> \o f.time
      \o <<"]", " ", "\"">> \o f.method \o <<" ">> \o f.path \o <<" ">> \o f.protocol
      \o <<"\"", " ">> \o f.status \o <<" ">> \o f.bytes \o <<" ", "\"">> \o f.referrer
      \o <<"\"", " ", "\"">> \o f.agent \o <<"\"">>
      \o TrailingText(f.trailing)

\* Lines that are no combined-log line at all.
MalformedLines == { <<>>, <<" ", "\t">>, <<"x", " ", "y">> }

\* A status of one digit more than int() converts.
OverlongStatus == [i \in 1..(INT_MAX_STR_DIGITS + 1) |-> "2"]

\* Lines whose only defect is the overlong status, with a timestamp that
\* parses and with one that does not.
OverlongFields ==
    [ip : {<<"1", ".", "2">>}, host : {<<"h">>}, ident : {<<"-">>},
     time : { <<"0", "1", "/", "N", "o", "v", "/", "2", "0", "2", "5", ":",
                "0", "0", ":", "1", "5", ":", "0", "0", " ", "+", "0", "0", "0", "0">>,
              <<"3", "1", "/", "O", "c", "t", "/", "2", "0", "2", "5", ":",
                "2", "3", ":", "3", "0", ":", "0", "0">> },
     method : {<<"G", "E", "T">>}, path : {<<"/", "p">>},
     protocol : {<<"H", "/", "1">>}, status : {OverlongStatus},
     bytes : {<<"5", "1">>}, referrer : {<<"-">>}, agent : {<<"G", "b">>},
     trailing : {NoTrailing, [delim |-> TRUE, tokens |-> SubSeq(TokensA, 1, 4),
                                           more |-> FALSE]}]

ParseInit ==
    /\ parsePc = "ready"
    /\ parsed = <<>>
    /\ \/ \E f \in LineFields \cup TrailingFields \cup OverlongFields :
            fields = f /\ line = Render(f)
       \/ \E l \in MalformedLines : fields = <<>> /\ line = l

\* One call parse_log_line(line): it returns the record or None, or the
\* ValueError of the status conversion leaves it.
ParseLine ==
    /\ parsePc = "ready"
    /\ \E raises \in {ParseRaises(line)} :
          /\ parsed' = IF raises THEN <<>> ELSE parse_log_line(line)
          /\ parsePc' = IF raises THEN "raised" ELSE "parsed"
    /\ UNCHANGED <<fields, line>>
    /\ UNCHANGED <<regVars, aggVars, etlVars, streamVars>>

ParseNext == ParseLine

ParserInit == ParseInit /\ RegIdle /\ AggIdle /\ EtlIdle /\ StreamIdle

SpecParse == ParserInit /\ [][ParseNext]_vars

--------------------------------------------------------------------------
(* Claims about the line parser                                            *)

\* The proleptic ordinal of the UTC calendar date of a timestamp.
UtcOrdinal(ts) ==
    ToOrdinal(ts.y, ts.m, ts.d)
      + ((ts.H * 60 + ts.M - ts.off + 1440) \div 1440) - 1

\* C3: the date field of every record equals the UTC calendar date of the
\* parsed timestamp, whatever its offset and time of day.
C3_DateIsUtcDate ==
    (parsePc = "parsed" /\ parsed # <<>>) =>
        parsed.date = IsoFormat(FromOrdinal(UtcOrdinal(parsed.ts)))

\* C4: every well-formed combined-log line (valid timestamp, referrer and
\* agent free of double quotes), with or without trailing segments, yields
\* a record whose mandatory fields are those of the line.
C4_WellFormedParses ==
    (parsePc = "parsed" /\ fields # <<>> /\ fields.time \in ValidTimes) =>
        /\ parsed # <<>>
        /\ parsed.ip = fields.ip
        /\ parsed.host = fields.host
        /\ parsed.ident = fields.ident
        /\ parsed.ts = StrptimeLog(fields.time)
        /\ parsed.method = fields.method
        /\ parsed.path = fields.path
        /\ parsed.protocol = fields.protocol
        /\ parsed.status = NumVal(fields.status)
        /\ parsed.referrer = fields.referrer
        /\ parsed.user_agent = fields.agent

\* C11: parse_log_line never raises for a malformed line, and it produces a
\* record only if the mandatory prefix matched and the timestamp parsed: an
\* empty or whitespace-only line, a line that is no combined-log line and a
\* line whose timestamp does not parse are rejected; a bytes token that is
\* not a number does not reject the line and gives body_bytes_sent = -1.
C11_NeverRaises ==
    (parsePc # "ready") =>
        /\ parsePc = "parsed"
        /\ (parsed # <<>> => (fields # <<>> /\ fields.time \in ValidTimes))
        /\ ((parsed # <<>> /\ fields.bytes = <<"-">>) =>
                parsed.body_bytes_sent = 0 - 1)

\* The number a timing token of the inputs stands for, None when it is no
\* number.
TimingValue(t) ==
    CASE t = <<"0", ".", "5">> -> <<"float", 500>>
      [] t = <<"1">> -> <<"float", 1000>>
      [] t = <<"2">> -> <<"float", 2000>>
      [] t = <<"2", ".", "2", "5">> -> <<"float", 2250>>
      [] OTHER -> None

\* The trailing metric field of position pos (0..6) of a record.
OptionalAt(rec, pos) ==
    CASE pos = 0 -> rec.time1
      [] pos = 1 -> rec.time2
      [] pos = 2 -> rec.time3
      [] pos = 3 -> rec.cache_status
      [] pos = 4 -> rec.extra_5
      [] pos = 5 -> rec.extra_6
      [] pos = 6 -> rec.extra_7

\* What position pos holds for the given tokens: absent from the token
\* count on, the number of a timing token (absent when it is no number),
\* the token itself elsewhere.
ExpectedAt(tokens, pos) ==
    IF pos >= Len(tokens) THEN None
    ELSE IF pos <= 2 THEN TimingValue(tokens[pos + 1])
    ELSE tokens[pos + 1]

\* The mandatory fields of a record.
Mandatory(rec) ==
    <<rec.ip, rec.host, rec.ident, rec.ts, rec.date, rec.method, rec.path,
      rec.protocol, rec.status, rec.body_bytes_sent, rec.referrer, rec.user_agent>>

\* The outcome p of a line with trailing segments tr against the outcome
\* base of its segment 0 alone.
SameAsSegment0(p, raised, base, baseRaised, tr) ==
    /\ raised = baseRaised
    /\ (p = <<>>) = (base = <<>>)
    /\ p # <<>> =>
          /\ Mandatory(p) = Mandatory(base)
          /\ (p.tls = None) = ~tr.delim
          /\ \A pos \in 0..6 : OptionalAt(p, pos) = ExpectedAt(tr.tokens, pos)

\* The outcome of the line of segment 0 alone.
Segment0Outcome(p, raised, l0, baseRaised, tr) ==
    SameAsSegment0(p, raised, IF baseRaised THEN <<>> ELSE parse_log_line(l0),
                   baseRaised, tr)

\* C12: the trailing segments never decide the outcome of parse_log_line:
\* a line gives a record exactly when its segment 0 alone does, with the
\* same mandatory fields; without the delimiter every trailing field is
\* absent; with k tokens exactly the positions from k on are absent, and a
\* timing token that is no number makes only its own field absent.
C12_TrailingNeverDecides ==
    (parsePc # "ready" /\ fields # <<>>) =>
        Segment0Outcome(parsed, parsePc = "raised",
                        Render([fields EXCEPT !.trailing = NoTrailing]),
                        ParseRaises(Render([fields EXCEPT !.trailing = NoTrailing])),
                        fields.trailing)

\* A record of a line with five tokens whose first timing token is no
\* number: time1 and the positions from 5 on are absent, the rest is there.
C12_Witness ==
    /\ parsePc = "parsed" /\ parsed # <<>>
    /\ fields.trailing.tokens = SubSeq(TokensB, 1, 5)
    /\ parsed.time1 = None /\ parsed.time2 # None /\ parsed.extra_5 = <<"u">>
    /\ parsed.extra_6 = None

--------------------------------------------------------------------------
(* Record serializer: parsed_logline_to_row, process_gzip_to_csv_bytes     *)

RECURSIVE NatText(_)
NatText(n) ==
    IF n < 10 THEN <<Digits[n + 1]>>
    ELSE NatText(n \div 10) \o <<Digits[(n % 10) + 1]>>

\* str(n) of an int.
IntText(n) == IF n < 0 THEN <<"-">> \o NatText(0 - n) ELSE NatText(n)

\* ts.isoformat() of an aware datetime without microseconds.
TsIsoFormat(ts) ==
    IsoFormat(<<ts.y, ts.m, ts.d>>) \o <<"T">> \o ZeroPad(ts.H, 2) \o <<":">>
      \o ZeroPad(ts.M, 2) \o <<":">> \o ZeroPad(ts.S, 2)
      \o (IF ts.off < 0
          THEN <<"-">> \o ZeroPad((0 - ts.off) \div 60, 2) \o <<":">>
                 \o ZeroPad((0 - ts.off) % 60, 2)
          ELSE <<"+">> \o ZeroPad(ts.off \div 60, 2) \o <<":">>
                 \o ZeroPad(ts.off % 60, 2))

\* "" if x is None else f"{x:.3f}"
Fixed3(x) ==
    IF x = None THEN <<>>
    ELSE NatText(x[2] \div 1000) \o <<".">> \o ZeroPad(x[2] % 1000, 3)

CSV_FIELDNAMES ==
    <<"date", "timestamp", "ip", "host", "method", "path", "protocol", "status",
      "body_bytes_sent", "referrer", "user_agent", "tls", "time1", "time2",
      "time3", "cache_status", "extra_5", "extra_6", "extra_7">>

\* The text of a field name.
FieldText(n) ==
    CASE n = "date" -> <<"d", "a", "t", "e">>
      [] n = "timestamp" -> <<"t", "i", "m", "e", "s", "t", "a", "m", "p">>
      [] n = "ip" -> <<"i", "p">>
      [] n = "host" -> <<"h", "o", "s", "t">>
      [] n = "method" -> <<"m", "e", "t", "h", "o", "d">>
      [] n = "path" -> <<"p", "a", "t", "h">>
      [] n = "protocol" -> <<"p", "r", "o", "t", "o", "c", "o", "l">>
      [] n = "status" -> <<"s", "t", "a", "t", "u", "s">>
      [] n = "body_bytes_sent" -> <<"b", "o", "d", "y", "_", "b", "y", "t", "e", "s", "_", "s", "e", "n", "t">>
      [] n = "referrer" -> <<"r", "e", "f", "e", "r", "r", "e", "r">>
      [] n = "user_agent" -> <<"u", "s", "e", "r", "_", "a", "g", "e", "n", "t">>
      [] n = "tls" -> <<"t", "l", "s">>
      [] n = "time1" -> <<"t", "i", "m", "e", "1">>
      [] n = "time2" -> <<"t", "i", "m", "e", "2">>
      [] n = "time3" -> <<"t", "i", "m", "e", "3">>
      [] n = "cache_status" -> <<"c", "a", "c", "h", "e", "_", "s", "t", "a", "t", "u", "s">>
      [] n = "extra_5" -> <<"e", "x", "t", "r", "a", "_", "5">>
      [] n = "extra_6" -> <<"e", "x", "t", "r", "a", "_", "6">>
      [] n = "extra_7" -> <<"e", "x", "t", "r", "a", "_", "7">>

\* parsed_logline_to_row(pl): the dict handed to csv.DictWriter.
parsed_logline_to_row(pl) ==
    [date |-> pl.date, timestamp |-> TsIsoFormat(pl.ts), ip |-> pl.ip,
     host |-> pl.host, method |-> pl.method, path |-> pl.path,
     protocol |-> pl.protocol, status |-> IntText(pl.status),
     body_bytes_sent |-> IntText(pl.body_bytes_sent), referrer |-> pl.referrer,
     user_agent |-> pl.user_agent, tls |-> OrEmpty(pl.tls),
     time1 |-> Fixed3(pl.time1), time2 |-> Fixed3(pl.time2),
     time3 |-> Fixed3(pl.time3), cache_status |-> OrEmpty(pl.cache_status),
     extra_5 |-> OrEmpty(pl.extra_5), extra_6 |-> OrEmpty(pl.extra_6),
     extra_7 |-> OrEmpty(pl.extra_7)]

\* csv.writer, the excel dialect: a field holding the delimiter, the quote
\* character or a character of the line terminator is quoted, its quotes
\* doubled.
CsvField(t) ==
    IF \E i \in 1..Len(t) : t[i] \in {",", "\"", "\r", "\n"}
    THEN <<"\"">>
           \o JoinWith([i \in 1..Len(t) |->
                          IF t[i] = "\"" THEN <<"\"", "\"">> ELSE <<t[i]>>], <<>>)
           \o <<"\"">>
    ELSE t

\* writer.writerow(values): the fields joined by "," and ended by "\r\n".
WriteRow(values) ==
    JoinWith([i \in 1..Len(values) |-> CsvField(values[i])], <<",">>) \o <<"\r", "\n">>

\* writer.writeheader()
WriteHeader == WriteRow([i \in 1..Len(CSV_FIELDNAMES) |-> FieldText(CSV_FIELDNAMES[i])])

\* DictWriter.writerow(row): the values in the order of the field names.
DictWriteRow(row) ==
    WriteRow([i \in 1..Len(CSV_FIELDNAMES) |-> row[CSV_FIELDNAMES[i]]])

\* The position after the line of s that starts at i, the line break found
\* at k (0: none).
EndAfter(s, k) ==
    IF k = 0 THEN Len(s) + 1
    ELSE IF s[k] = "\r" /\ At(s, k + 1) = "\n" THEN k + 2
    ELSE k + 1

\* The first position >= i of s that holds a character of breaks, or 0.
FirstOf(s, i, breaks) ==
    IF \E k \in i..Len(s) : s[k] \in breaks
    THEN SetMin({k \in i..Len(s) : s[k] \in breaks})
    ELSE 0

RECURSIVE LinesFrom(_, _, _)
\* The lines of s from position i, line ends kept, a line ending at a
\* character of breaks ("\r\n" taken as one when "\r" is a break).
LinesFrom(s, i, breaks) ==
    IF i > Len(s) THEN <<>>
    ELSE <<Slice(s, i, EndAfter(s, FirstOf(s, i, breaks)))>>
           \o LinesFrom(s, EndAfter(s, FirstOf(s, i, breaks)), breaks)

\* Iterating a binary file: the lines end at "\n".
FileLines(data) == LinesFrom(data, 1, {"\n"})

IsParsed(r) == r # <<>>

\* The lines that parse_log_line accepts, parsed, in line order.
ParsedOf(lines) ==
    SelectSeq([i \in 1..Len(lines) |-> parse_log_line(lines[i])], IsParsed)

\* parse_gzip_stream(gz_bytes), as a list.  A compressed blob is modelled
\* by gzip (is it a gzip stream) and data (what it decompresses to).
parse_gzip_stream(gz) == ParsedOf(FileLines(gz.data))

\* The data rows written for the records, one text per record.
RowTexts(records) ==
    [i \in 1..Len(records) |-> DictWriteRow(parsed_logline_to_row(records[i]))]

\* The data rows written for a blob.
RowsOf(gz) == RowTexts(parse_gzip_stream(gz))

\* The rows after the header.
WithHeader(rows) == WriteHeader \o JoinWith(rows, <<>>)

\* process_gzip_to_csv_bytes(gz_bytes) of a gzip stream.
process_gzip_to_csv_bytes(gz) == WithHeader(RowsOf(gz))

--------------------------------------------------------------------------
(* Object storage and the appends (etl_lambda.py)                          *)

HasObject(o, bucket, key) == <<bucket, key>> \in DOMAIN o

\* s3_client.put_object: the object is created or replaced.
PutObject(o, bucket, key, body) ==
    [x \in DOMAIN o \cup {<<bucket, key>>} |->
        IF x = <<bucket, key>> THEN body ELSE o[x]]

\* What s3_client.get_object gives: "ok", or the code of the ClientError.
\* An absent object is reported by the code miss; fault is a failure of
\* the service ("" for none).
GetCode(o, bucket, key, miss, fault) ==
    IF fault # "" THEN fault
    ELSE IF HasObject(o, bucket, key) THEN "ok"
    ELSE miss

MissCodes == {"NoSuchKey", "404"}
Faults == {"", "AccessDenied"}

\* str.splitlines(keepends=True), for the line boundaries "\n", "\r",
\* "\r\n" and "\f".
SplitLines(text) == LinesFrom(text, 1, {"\n", "\r", "\f"})

\* "".join(lines[1:]), b"" when there is at most one line.
JoinTail(lines) == IF Len(lines) <= 1 THEN <<>> ELSE JoinWith(Tail(lines), <<>>)

\* The tail of a batch appended with its header line.
NewTailKeepsHeader(csv_bytes) == csv_bytes

\* new_tail: csv_bytes without its first line.
NewTail(csv_bytes) == JoinTail(SplitLines(csv_bytes))

\* The body append_to_aggregated_csv puts after get_object gave code;
\* existing_body is what the read returned.
AggregatedCsvBody(code, existing_body, csv_bytes) ==
    IF code = "ok" THEN existing_body \o NewTail(csv_bytes) ELSE csv_bytes

\* append_to_aggregated_csv(bucket, key, csv_bytes) run without
\* interruption: the objects afterwards.  Any other code is raised again
\* and nothing is written.
append_to_aggregated_csv(o, bucket, key, csv_bytes, code) ==
    IF code = "ok"
    THEN PutObject(o, bucket, key,
                   AggregatedCsvBody(code, o[<<bucket, key>>], csv_bytes))
    ELSE IF code \in MissCodes
    THEN PutObject(o, bucket, key, AggregatedCsvBody(code, <<>>, csv_bytes))
    ELSE o

\* The body append_to_aggregated_log puts.
AggregatedLogBody(code, existing_body, decompressed) ==
    IF code = "ok" THEN existing_body \o decompressed ELSE decompressed

StartsWith(s, prefix) ==
    Len(s) >= Len(prefix) /\ Slice(s, 1, Len(prefix) + 1) = prefix

EndsWith(s, suffix) ==
    Len(s) >= Len(suffix) /\ Slice(s, Len(s) - Len(suffix) + 1, Len(s) + 1) = suffix

\* The key without a leading "raw/".
WithoutRaw(input_key) ==
    IF StartsWith(input_key, <<"r", "a", "w", "/">>)
    THEN Slice(input_key, 5, Len(input_key) + 1)
    ELSE input_key

\* ".gz" replaced by ".csv", or ".csv" added.
AsCsvName(rest) ==
    IF EndsWith(rest, <<".", "g", "z">>)
    THEN Slice(rest, 1, Len(rest) - 2) \o <<".", "c", "s", "v">>
    ELSE rest \o <<".", "c", "s", "v">>

\* The prefix, ended by "/" unless empty.
AsFolder(prefix) ==
    IF prefix # <<>> /\ ~EndsWith(prefix, <<"/">>) THEN prefix \o <<"/">> ELSE prefix

\* derive_output_key(input_key, prefix)
derive_output_key(input_key, prefix) == AsFolder(prefix) \o AsCsvName(WithoutRaw(input_key))

\* The characters that the percent escapes of the model's keys stand for.
PercentCodes ==
    { <<"3", "d", "=">>, <<"2", "f", "/">>, <<"2", "b", "+">>, <<"2", "0", " ">> }

IsEscape(s) ==
    Len(s) >= 3 /\ s[1] = "%"
      /\ \E pc \in PercentCodes : <<Lower(s[2]), Lower(s[3])>> = <<pc[1], pc[2]>>

EscapedChar(s) ==
    (CHOOSE pc \in PercentCodes : <<Lower(s[2]), Lower(s[3])>> = <<pc[1], pc[2]>>)[3]

RECURSIVE unquote_plus(_)
\* urllib.parse.unquote_plus: "+" is a space, "%XX" the character XX.
unquote_plus(s) ==
    IF s = <<>> THEN <<>>
    ELSE IF IsEscape(s) THEN <<EscapedChar(s)>> \o unquote_plus(Slice(s, 4, Len(s) + 1))
    ELSE <<IF Head(s) = "+" THEN " " ELSE Head(s)>> \o unquote_plus(Tail(s))

--------------------------------------------------------------------------
(* Sequential appends as a state machine                                   *)

\* The number of append_to_aggregated_csv calls in a run.
MaxCalls == 3

\* Access-log lines: an accepted line;
LogLineA ==
    <<"1", " ", "h", " ", "-", " ", "[", "0", "1", "/", "N", "o", "v", "/",
      "2", "0", "2", "5", ":", "0", "0", ":", "1", "5", ":", "0", "0", " ",
      "+", "0", "5", "3", "0", "]", " ", "\"", "G", " ", "/", "a", " ",
      "H", "\"", " ", "2", "0", "0", " ", "5", " ", "\"", "-", "\"", " ",
      "\"", "G", "b", "\"">>
\* an accepted line with a comma in the referrer and trailing metrics;
LogLineB ==
    <<"2", " ", "h", " ", "-", " ", "[", "3", "1", "/", "O", "c", "t", "/",
      "2", "0", "2", "5", ":", "2", "3", ":", "3", "0", ":", "0", "0", " ",
      "-", "0", "5", "0", "0", "]", " ", "\"", "G", " ", "/", "b", " ",
      "H", "\"", " ", "4", "0", "4", " ", "-", " ", "\"", "r", ",", "1",
      "\"", " ", "\"", "C", "b", "\"", " ", "|", " ", "T", " ", "|", " ",
      "0", ".", "5", " ", "1", " ", "x", " ", "H", "I", "T">>
\* a rejected line;
LogLineC ==
    <<"g", "a", "r", "b", "a", "g", "e">>
\* an accepted line with a form feed in the referrer and a carriage return in
\* the agent;
LogLineD ==
    <<"3", " ", "h", " ", "-", " ", "[", "0", "1", "/", "N", "o", "v", "/",
      "2", "0", "2", "5", ":", "0", "9", ":", "0", "0", ":", "0", "0", " ",
      "+", "0", "0", "0", "0", "]", " ", "\"", "G", " ", "/", "d", " ",
      "H", "\"", " ", "2", "0", "0", " ", "7", " ", "\"", "a", "\f", "b",
      "\"", " ", "\"", "x", "\r", "y", "\"">>
\* an accepted line with a quote in the path.
LogLineE ==
    <<"4", " ", "h", " ", "-", " ", "[", "3", "0", "/", "O", "c", "t", "/",
      "2", "0", "2", "5", ":", "1", "2", ":", "0", "0", ":", "0", "0", " ",
      "+", "0", "0", "0", "0", "]", " ", "\"", "G", " ", "/", "e", "\"",
      " ", "H", "\"", " ", "2", "0", "0", " ", "9", " ", "\"", "-", "\"",
      " ", "\"", "G", "b", "\"">>

\* An accepted line apart from its status of one digit too many.
OverlongLine ==
    Render([ip |-> <<"1", ".", "2">>, host |-> <<"h">>, ident |-> <<"-">>,
            time |-> <<"0", "1", "/", "N", "o", "v", "/", "2", "0", "2", "5", ":",
                       "0", "0", ":", "1", "5", ":", "0", "0", " ",
                       "+", "0", "0", "0", "0">>,
            method |-> <<"G", "E", "T">>, path |-> <<"/", "p">>,
            protocol |-> <<"H", "/", "1">>, status |-> OverlongStatus,
            bytes |-> <<"5", "1">>, referrer |-> <<"-">>, agent |-> <<"G", "b">>,
            trailing |-> NoTrailing])

\* Compressed blobs: a batch of one record; a batch of two records around a
\* rejected line, the last line unterminated; a batch whose record holds a
\* quote; a batch without records; an empty file.
GzA == [gzip |-> TRUE, data |-> LogLineA \o <<"\n">>]
GzB == [gzip |-> TRUE,
        data |-> LogLineB \o <<"\n">> \o LogLineC \o <<"\r", "\n">> \o LogLineD]
GzE == [gzip |-> TRUE, data |-> LogLineE \o <<"\n">>]
GzNoRecords == [gzip |-> TRUE, data |-> LogLineC \o <<"\n">>]
GzEmpty == [gzip |-> TRUE, data |-> <<>>]
\* Bytes that are no gzip stream.
NotGzip == [gzip |-> FALSE, data |-> <<>>]
\* A blob of one accepted line followed by the line with the overlong status.
GzOverlong == [gzip |-> TRUE, data |-> LogLineA \o <<"\n">> \o OverlongLine \o <<"\n">>]

\* A blob of the line with the overlong status alone.
GzOverlongOnly == [gzip |-> TRUE, data |-> OverlongLine \o <<"\n">>]

\* The blobs process_gzip_to_csv_bytes turns into CSV bytes.
Batches == {GzA, GzB, GzE, GzNoRecords, GzEmpty}

\* The lines the generated blobs are written from: two accepted lines, a
\* rejected line and the line with the overlong status.
StreamLineChoices == {LogLineA, LogLineB, LogLineC, OverlongLine}

\* Every line of every blob, as the loop reads it.
StreamLines ==
    { l \o <<"\n">> : l \in StreamLineChoices }
      \cup UNION { { FileLines(b.data)[i] : i \in 1..Len(FileLines(b.data)) } :
                   b \in Batches \cup {GzOverlong} }

\* parse_log_line on every line, computed once: does it raise, and what it
\* returns when it does not.
LineRaises == [l \in StreamLines |-> ParseRaises(l)]

LineParsed ==
    [l \in StreamLines |-> IF LineRaises[l] THEN <<>> ELSE parse_log_line(l)]

\* process_gzip_to_csv_bytes(gz_bytes) raises instead of returning: the
\* exception that leaves it, "" when there is none.  Bytes that are no gzip
\* stream raise BadGzipFile at the first read; a line on which
\* parse_log_line raises lets its ValueError through parse_gzip_stream.
ProcessError(gz) ==
    IF ~gz.gzip THEN "BadGzipFile"
    ELSE IF \E i \in 1..Len(FileLines(gz.data)) : LineRaises[FileLines(gz.data)[i]]
    THEN "ValueError"
    ELSE ""

\* The exception of process_gzip_to_csv_bytes on every blob, computed once.
ProcessErrorOf ==
    [gz \in Batches \cup {NotGzip, GzOverlong, GzOverlongOnly} |-> ProcessError(gz)]

\* process_gzip_to_csv_bytes and the data rows of every batch, computed once.
CsvOf == [gz \in Batches |-> process_gzip_to_csv_bytes(gz)]
BatchRows == [gz \in Batches |-> RowsOf(gz)]

ProcessingBucket == "logs-processing"

AggregatedKey ==
    <<"a", "g", "g", "r", "e", "g", "a", "t", "e", "d", "/", "a", "l", "l",
      "_", "l", "o", "g", "s", ".", "c", "s", "v">>

InvIdle == inv = <<>>

AppendInit ==
    /\ objects = <<>>
    /\ calls = <<>>
    /\ InvIdle
    /\ RegIdle /\ AggIdle /\ ParseIdle /\ StreamIdle

\* One call append_to_aggregated_csv(bucket, key, csv_bytes), csv_bytes a
\* whole document; the calls follow one another.
AppendToAggregatedCsv ==
    /\ Len(calls) < MaxCalls
    /\ \E gz \in Batches, miss \in MissCodes, fault \in Faults :
         LET code == GetCode(objects, ProcessingBucket, AggregatedKey, miss, fault)
         IN  /\ objects' = append_to_aggregated_csv(objects, ProcessingBucket,
                              AggregatedKey, CsvOf[gz], code)
             /\ calls' = IF code = "ok" \/ code \in MissCodes
                         THEN Append(calls, gz) ELSE calls
    /\ UNCHANGED inv
    /\ UNCHANGED <<regVars, aggVars, parseVars, streamVars>>

AppendNext == AppendToAggregatedCsv

SpecAppend == AppendInit /\ [][AppendNext]_vars

--------------------------------------------------------------------------
(* Claims about the sequential appends                                     *)

\* The data rows of the batches in call order.
RowsOfCalls(cs) ==
    JoinWith([i \in 1..Len(cs) |-> JoinWith(BatchRows[cs[i]], <<>>)], <<>>)

\* The aggregated CSV object.
AggregatedCsv == objects[<<ProcessingBucket, AggregatedKey>>]

\* C5: after any sequence of sequential append_to_aggregated_csv calls that
\* starts from an absent aggregated object, each call given a whole CSV
\* document, the aggregated object is a header-once document: its first line
\* is the header, no later line is the header, and its data rows are the data
\* rows of every batch in call order, each batch in its own row order; a
\* header-only batch adds nothing.
C5_HeaderOnce ==
    /\ HasObject(objects, ProcessingBucket, AggregatedKey) <=> calls # <<>>
    /\ calls # <<>> =>
         /\ AggregatedCsv = WriteHeader \o RowsOfCalls(calls)
         /\ SplitLines(AggregatedCsv)[1] = WriteHeader
         /\ \A i \in 2..Len(SplitLines(AggregatedCsv)) :
                SplitLines(AggregatedCsv)[i] # WriteHeader

\* Three calls were made, the second with a header-only batch between two
\* batches with records.
C5_Witness ==
    /\ Len(calls) = 3
    /\ calls[1] = GzB /\ calls[2] = GzNoRecords /\ calls[3] = GzA
    /\ HasObject(objects, ProcessingBucket, AggregatedKey)

--------------------------------------------------------------------------
(* The ETL handler as a state machine: concurrent invocations              *)

\* The configuration get_config() returns.
RawBucket == "logs-raw"
ProcessingPrefix == <<"p", "a", "r", "s", "e", "d">>
AggregatedLogKey ==
    <<"a", "g", "g", "r", "e", "g", "a", "t", "e", "d", "/", "a", "l", "l",
      "_", "l", "o", "g", "s", ".", "l", "o", "g">>

\* A bucket that is not the raw bucket.
OtherBucket == "uploads"

\* Object keys of the raw bucket, and the same keys as an S3 event carries
\* them, URL-encoded.
RawKeyA ==
    <<"r", "a", "w", "/", "d", "a", "t", "e", "=", "2", "0", "2", "5", "-",
      "1", "1", "-", "0", "1", "/", "a", ".", "g", "z">>
EventKeyA ==
    <<"r", "a", "w", "/", "d", "a", "t", "e", "%", "3", "D", "2", "0", "2",
      "5", "-", "1", "1", "-", "0", "1", "/", "a", ".", "g", "z">>
RawKeyB ==
    <<"r", "a", "w", "/", "b", " ", "1", ".", "g", "z">>
EventKeyB ==
    <<"r", "a", "w", "/", "b", "+", "1", ".", "g", "z">>
RawKeyBad ==
    <<"r", "a", "w", "/", "b", "a", "d">>
EventKeyBad ==
    <<"r", "a", "w", "/", "b", "a", "d">>

S3Record(bucket, key) == [bucket |-> bucket, key |-> key]

\* The two invocations of handler that run at the same time.
Invocations == {1, 2}

\* The events an invocation may be given: the first invocation is notified
\* of the raw object a, the second of the raw object b, of bytes that are no
\* gzip stream, or of nothing.
Events(p) ==
    IF p = 1
    THEN { <<S3Record(RawBucket, EventKeyA)>>,
           <<S3Record(OtherBucket, EventKeyA), S3Record(RawBucket, EventKeyA)>> }
    ELSE { <<S3Record(RawBucket, EventKeyB)>>,
           <<S3Record(RawBucket, EventKeyBad)>>,
           <<>> }

\* The raw objects, with or without an aggregated CSV and log from an
\* earlier batch.
RawObjects ==
    [x \in {<<RawBucket, RawKeyA>>, <<RawBucket, RawKeyB>>, <<RawBucket, RawKeyBad>>} |->
        IF x[2] = RawKeyA THEN GzA ELSE IF x[2] = RawKeyB THEN GzB ELSE NotGzip]

Seeded ==
    PutObject(PutObject(RawObjects, ProcessingBucket, AggregatedKey, CsvOf[GzE]),
              ProcessingBucket, AggregatedLogKey, GzE.data)

NotInvoked ==
    [pc |-> "idle", event |-> <<>>, idx |-> 0, key |-> <<>>, gz_bytes |-> <<>>,
     csv_bytes |-> <<>>, code |-> "", existing_body |-> <<>>, results |-> <<>>,
     error |-> ""]

EtlInit ==
    /\ objects \in {RawObjects, Seeded}
    /\ calls = <<>>
    /\ inv = [p \in Invocations |-> NotInvoked]
    /\ RegIdle /\ AggIdle /\ ParseIdle /\ StreamIdle

\* handler(event, context) is entered.
Invoke(p) ==
    /\ inv[p].pc = "idle"
    /\ \E ev \in Events(p) :
         inv' = [inv EXCEPT ![p] = [@ EXCEPT !.pc = "loop", !.event = ev, !.idx = 1]]
    /\ UNCHANGED <<objects, calls>>
    /\ UNCHANGED <<regVars, aggVars, parseVars, streamVars>>

\* The loop over the records is over: handler returns.
Return(p) ==
    /\ inv[p].pc = "loop"
    /\ inv[p].idx > Len(inv[p].event)
    /\ inv' = [inv EXCEPT ![p] = [@ EXCEPT !.pc = "returned"]]
    /\ UNCHANGED <<objects, calls>>
    /\ UNCHANGED <<regVars, aggVars, parseVars, streamVars>>

\* A record of another bucket is skipped.
SkipRecord(p) ==
    /\ inv[p].pc = "loop"
    /\ inv[p].idx <= Len(inv[p].event)
    /\ inv[p].event[inv[p].idx].bucket # RawBucket
    /\ inv' = [inv EXCEPT ![p] = [@ EXCEPT !.idx = @ + 1]]
    /\ UNCHANGED <<objects, calls>>
    /\ UNCHANGED <<regVars, aggVars, parseVars, streamVars>>

\* Steps 1 to 3: the raw object is downloaded and turned into CSV bytes.  A
\* ClientError of get_object and the exception of process_gzip_to_csv_bytes
\* are not caught: they leave handler.
GetRaw(p) ==
    /\ inv[p].pc = "loop"
    /\ inv[p].idx <= Len(inv[p].event)
    /\ inv[p].event[inv[p].idx].bucket = RawBucket
    /\ \E fault \in Faults :
         LET key == unquote_plus(inv[p].event[inv[p].idx].key)
             code == GetCode(objects, RawBucket, key, "NoSuchKey", fault)
         IN  IF code # "ok"
             THEN inv' = [inv EXCEPT ![p] = [@ EXCEPT !.pc = "raised", !.key = key,
                                                     !.error = "ClientError"]]
             ELSE IF ProcessErrorOf[objects[<<RawBucket, key>>]] # ""
             THEN inv' = [inv EXCEPT ![p] =
                            [@ EXCEPT !.pc = "raised", !.key = key,
                                      !.gz_bytes = objects[<<RawBucket, key>>],
                                      !.error = ProcessErrorOf[objects[<<RawBucket, key>>]]]]
             ELSE inv' = [inv EXCEPT ![p] =
                            [@ EXCEPT !.pc = "put_parsed", !.key = key,
                                      !.gz_bytes = objects[<<RawBucket, key>>],
                                      !.csv_bytes = CsvOf[objects[<<RawBucket, key>>]]]]
    /\ UNCHANGED <<objects, calls>>
    /\ UNCHANGED <<regVars, aggVars, parseVars, streamVars>>

\* Step 4: the CSV is uploaded under the derived key.
PutParsed(p) ==
    /\ inv[p].pc = "put_parsed"
    /\ objects' = PutObject(objects, ProcessingBucket,
                            derive_output_key(inv[p].key, ProcessingPrefix),
                            inv[p].csv_bytes)
    /\ inv' = [inv EXCEPT ![p] = [@ EXCEPT !.pc = "csv_get"]]
    /\ UNCHANGED calls
    /\ UNCHANGED <<regVars, aggVars, parseVars, streamVars>>

\* The read of a read-modify-write: get_object of the aggregated object,
\* after which the invocation is at pc next, or has raised.
ReadExisting(p, key, miss, fault, next) ==
    LET code == GetCode(objects, ProcessingBucket, key, miss, fault)
    IN  IF code = "ok"
        THEN [inv EXCEPT ![p] =
                [@ EXCEPT !.pc = next, !.code = code,
                          !.existing_body = objects[<<ProcessingBucket, key>>]]]
        ELSE IF code \in MissCodes
        THEN [inv EXCEPT ![p] = [@ EXCEPT !.pc = next, !.code = code,
                                          !.existing_body = <<>>]]
        ELSE [inv EXCEPT ![p] = [@ EXCEPT !.pc = "raised", !.code = code,
                                          !.error = "ClientError"]]

\* Step 5, the read of append_to_aggregated_csv.
AggCsvGet(p) ==
    /\ inv[p].pc = "csv_get"
    /\ \E miss \in MissCodes, fault \in Faults :
         inv' = ReadExisting(p, AggregatedKey, miss, fault, "csv_put")
    /\ UNCHANGED <<objects, calls>>
    /\ UNCHANGED <<regVars, aggVars, parseVars, streamVars>>

\* Step 5, the write of append_to_aggregated_csv.
AggCsvPut(p) ==
    /\ inv[p].pc = "csv_put"
    /\ objects' = PutObject(objects, ProcessingBucket, AggregatedKey,
                            AggregatedCsvBody(inv[p].code, inv[p].existing_body,
                                              inv[p].csv_bytes))
    /\ calls' = Append(calls, inv[p].gz_bytes)
    /\ inv' = [inv EXCEPT ![p] = [@ EXCEPT !.pc = "log_get"]]
    /\ UNCHANGED <<regVars, aggVars, parseVars, streamVars>>

\* The record is done: its result is appended and the loop goes on.
RecordDone(p) ==
    [inv EXCEPT ![p] =
        [@ EXCEPT !.pc = "loop", !.idx = @ + 1,
                  !.results = Append(@, [input |-> <<RawBucket, inv[p].key>>,
                                         output |-> <<ProcessingBucket,
                                             derive_output_key(inv[p].key,
                                                 ProcessingPrefix)>>])]]

\* Step 6, gzip.decompress and the read of append_to_aggregated_log: bytes
\* that are no gzip stream end the append without a write.
AggLogGet(p) ==
    /\ inv[p].pc = "log_get"
    /\ IF ~inv[p].gz_bytes.gzip
       THEN inv' = RecordDone(p)
       ELSE \E miss \in MissCodes, fault \in Faults :
               inv' = ReadExisting(p, AggregatedLogKey, miss, fault, "log_put")
    /\ UNCHANGED <<objects, calls>>
    /\ UNCHANGED <<regVars, aggVars, parseVars, streamVars>>

\* Step 6, the write of append_to_aggregated_log; the record is done.
AggLogPut(p) ==
    /\ inv[p].pc = "log_put"
    /\ objects' = PutObject(objects, ProcessingBucket, AggregatedLogKey,
                            AggregatedLogBody(inv[p].code, inv[p].existing_body,
                                              inv[p].gz_bytes.data))
    /\ inv' = RecordDone(p)
    /\ UNCHANGED calls
    /\ UNCHANGED <<regVars, aggVars, parseVars, streamVars>>

EtlNext ==
    \E p \in Invocations :
        \/ Invoke(p) \/ Return(p) \/ SkipRecord(p) \/ GetRaw(p) \/ PutParsed(p)
        \/ AggCsvGet(p) \/ AggCsvPut(p) \/ AggLogGet(p) \/ AggLogPut(p)

SpecEtl == EtlInit /\ [][EtlNext]_vars

--------------------------------------------------------------------------
(* Claims about concurrent invocations                                     *)

\* The invocation returned after processing its raw object.
Processed(p) == inv[p].pc = "returned" /\ inv[p].results # <<>>

\* The data rows of the batch the invocation processed.
BatchText(p) == JoinWith(BatchRows[inv[p].gz_bytes], <<>>)

\* C6: when two handler invocations process different raw objects and their
\* get_object and put_object calls on the aggregated CSV key interleave in
\* any order, the final aggregated object holds the data rows of both batches
\* under a single header.
C6_BothBatchesKept ==
    (Processed(1) /\ Processed(2)) =>
        /\ HasObject(objects, ProcessingBucket, AggregatedKey)
        /\ \E base \in {WriteHeader, CsvOf[GzE]} :
              AggregatedCsv \in { base \o BatchText(1) \o BatchText(2),
                                  base \o BatchText(2) \o BatchText(1) }

--------------------------------------------------------------------------
(* The ETL handler as a state machine: sequential deliveries               *)

\* The most records of an event.
MaxRecords == 2

\* More raw objects: a blob without records, and the blobs with the
\* overlong status.
RawKeyNone == <<"r", "a", "w", "/", "n", ".", "g", "z">>
RawKeyLong == <<"r", "a", "w", "/", "l", ".", "g", "z">>
RawKeyLongOnly == <<"r", "a", "w", "/", "o", ".", "g", "z">>

\* The raw bucket of the deliveries; nothing is in the processing bucket.
DeliverObjects ==
    [x \in {<<RawBucket, RawKeyA>>, <<RawBucket, RawKeyB>>, <<RawBucket, RawKeyBad>>,
            <<RawBucket, RawKeyNone>>, <<RawBucket, RawKeyLong>>,
            <<RawBucket, RawKeyLongOnly>>} |->
        CASE x[2] = RawKeyA -> GzA
          [] x[2] = RawKeyB -> GzB
          [] x[2] = RawKeyBad -> NotGzip
          [] x[2] = RawKeyNone -> GzNoRecords
          [] x[2] = RawKeyLong -> GzOverlong
          [] x[2] = RawKeyLongOnly -> GzOverlongOnly]

\* The records an event may carry.
DeliverRecords ==
    { S3Record(RawBucket, EventKeyA), S3Record(RawBucket, EventKeyB),
      S3Record(RawBucket, EventKeyBad), S3Record(RawBucket, RawKeyNone),
      S3Record(RawBucket, RawKeyLong), S3Record(RawBucket, RawKeyLongOnly),
      S3Record(OtherBucket, EventKeyA) }

RECURSIVE RecordLists(_)
\* The lists of n records.
RecordLists(n) ==
    IF n = 0 THEN {<<>>}
    ELSE { Append(rs, r) : rs \in RecordLists(n - 1), r \in DeliverRecords }

DeliverEvents == UNION { RecordLists(n) : n \in 0..MaxRecords }

DeliverInit ==
    /\ objects = DeliverObjects
    /\ calls = <<>>
    /\ inv = [p \in Invocations |-> NotInvoked]
    /\ RegIdle /\ AggIdle /\ ParseIdle /\ StreamIdle

\* handler(event, context) is entered once the invocation before it is
\* over: the first delivery of an event, then its re-delivery.
Deliver(p) ==
    /\ inv[p].pc = "idle"
    /\ \A q \in Invocations : q < p => inv[q].pc \in {"returned", "raised"}
    /\ \E ev \in DeliverEvents :
         /\ \A q \in Invocations : q < p => ev = inv[q].event
         /\ inv' = [inv EXCEPT ![p] = [@ EXCEPT !.pc = "loop", !.event = ev, !.idx = 1]]
    /\ UNCHANGED <<objects, calls>>
    /\ UNCHANGED <<regVars, aggVars, parseVars, streamVars>>

DeliverNext ==
    \E p \in Invocations :
        \/ Deliver(p) \/ Return(p) \/ SkipRecord(p) \/ GetRaw(p) \/ PutParsed(p)
        \/ AggCsvGet(p) \/ AggCsvPut(p) \/ AggLogGet(p) \/ AggLogPut(p)

SpecDeliver == DeliverInit /\ [][DeliverNext]_vars

--------------------------------------------------------------------------
(* Claims about the deliveries                                             *)

\* The blob decompresses and none of its lines gives a record.
ZeroParseable(gz) ==
    /\ gz.gzip
    /\ \A i \in 1..Len(FileLines(gz.data)) : LineParsed[FileLines(gz.data)[i]] = <<>>

\* The blob the invocation downloaded last: it does not decompress and the
\* failure left handler without a write, or it has no parseable line and
\* its CSV is the header alone.
BlobOutcome(v) ==
    /\ ~v.gz_bytes.gzip =>
          /\ v.pc = "raised" /\ v.error = "BadGzipFile"
          /\ ~HasObject(objects, ProcessingBucket,
                        derive_output_key(v.key, ProcessingPrefix))
          /\ \A i \in 1..Len(calls) : calls[i] # v.gz_bytes
    /\ ZeroParseable(v.gz_bytes) =>
          /\ v.error \notin {"BadGzipFile", "ValueError"}
          /\ v.csv_bytes = WriteHeader

\* C15: a blob that does not decompress is fatal: the error leaves handler
\* and nothing is written for the blob to the parsed CSV, the aggregated
\* CSV or the aggregated log; a blob that decompresses but has no parseable
\* line is no error: it gives a valid empty result, the header-only CSV.
C15_DecompressFailureDistinct ==
    \A p \in Invocations : inv[p].gz_bytes # <<>> => BlobOutcome(inv[p])

\* The records of the event of invocation p that name the raw bucket.
IsRawRecord(r) == r.bucket = RawBucket

RawRecords(p) == SelectSeq(inv[p].event, IsRawRecord)

\* The raw objects that are gzip streams.
GzipKeys == { x[2] : x \in { y \in DOMAIN DeliverObjects : DeliverObjects[y].gzip } }

\* The data rows of the parseable lines of every gzip raw object, as one
\* text, computed once.
ParseableRows ==
    [key \in GzipKeys |->
        LET ls == FileLines(DeliverObjects[<<RawBucket, key>>].data)
            recs == SelectSeq([i \in 1..Len(ls) |-> LineParsed[ls[i]]], IsParsed)
        IN  JoinWith(RowTexts(recs), <<>>)]

RECURSIVE Repeat(_, _)
\* text, k times.
Repeat(text, k) == IF k = 0 THEN <<>> ELSE text \o Repeat(text, k - 1)

\* Every handler call so far is over and storage never failed.
Delivered ==
    /\ \A p \in Invocations : inv[p].pc \in {"idle", "returned", "raised"}
    /\ \A p \in Invocations : inv[p].error # "ClientError"

\* The number of times a record of the raw bucket was delivered.
Processings ==
    IF inv[1].pc = "idle" THEN 0
    ELSE IF inv[2].pc = "idle" THEN Len(RawRecords(1))
    ELSE Len(RawRecords(1)) + Len(RawRecords(2))

\* Every delivered record of the raw bucket names the object key.
OnlyObject(key) ==
    \A p \in Invocations : \A i \in 1..Len(RawRecords(p)) :
        unquote_plus(RawRecords(p)[i].key) = key

\* C18: after k >= 1 sequential deliveries of the records of one raw
\* object onto an aggregated CSV that did not exist, the object at the
\* derived output key is the header and the rows of the object's parseable
\* lines (the same after every delivery), the aggregated CSV is one header
\* followed by k times those rows, and the aggregated log is the
\* decompressed content k times; when only records of other buckets were
\* delivered nothing was written.
C18_RedeliveryAppends ==
    Delivered =>
        /\ Processings = 0 => objects = DeliverObjects
        /\ \A key \in GzipKeys :
              (OnlyObject(key) /\ Processings >= 1) =>
                  /\ DOMAIN objects = DOMAIN DeliverObjects \cup
                        { <<ProcessingBucket, derive_output_key(key, ProcessingPrefix)>>,
                          <<ProcessingBucket, AggregatedKey>>,
                          <<ProcessingBucket, AggregatedLogKey>> }
                  /\ objects[<<ProcessingBucket,
                               derive_output_key(key, ProcessingPrefix)>>]
                        = WriteHeader \o ParseableRows[key]
                  /\ AggregatedCsv
                        = WriteHeader \o Repeat(ParseableRows[key], Processings)
                  /\ objects[<<ProcessingBucket, AggregatedLogKey>>]
                        = Repeat(DeliverObjects[<<RawBucket, key>>].data, Processings)

--------------------------------------------------------------------------
(* The record generator parse_gzip_stream as a state machine               *)

\* The most lines of a generated blob.
MaxLines == 3

RECURSIVE LineLists(_)
\* The lists of n lines.
LineLists(n) ==
    IF n = 0 THEN {<<>>}
    ELSE { Append(ls, l) : ls \in LineLists(n - 1), l \in StreamLineChoices }

\* The file of a list of lines, every line terminated.
FileOf(ls) == JoinWith([i \in 1..Len(ls) |-> ls[i] \o <<"\n">>], <<>>)

\* The blobs handed to the generator: every file of up to MaxLines lines,
\* the batches of the ETL machines, and bytes that are no gzip stream.
StreamBlobs ==
    { [gzip |-> TRUE, data |-> FileOf(ls)] :
        ls \in UNION { LineLists(n) : n \in 0..MaxLines } }
      \cup Batches \cup {NotGzip}

\* parse_gzip_stream(gz_bytes) is called: the generator object exists and
\* none of its code has run.
StreamInit ==
    /\ gz_bytes \in StreamBlobs
    /\ lineNo = 0
    /\ yielded = <<>>
    /\ genPc = "created"

\* The first read of bytes that are no gzip stream: BadGzipFile leaves the
\* generator.
StreamOpenFails ==
    /\ genPc = "created"
    /\ ~gz_bytes.gzip
    /\ genPc' = "raised"
    /\ UNCHANGED <<gz_bytes, lineNo, yielded>>
    /\ UNCHANGED <<regVars, aggVars, parseVars, etlVars>>

\* The loop read line l: its record is yielded, or the line is dropped, or
\* the ValueError of parse_log_line leaves the generator.
StreamTakeLine(l) ==
    /\ lineNo' = lineNo + 1
    /\ yielded' = IF LineParsed[l] # <<>> THEN Append(yielded, LineParsed[l])
                  ELSE yielded
    /\ genPc' = IF LineRaises[l] THEN "raised" ELSE "reading"

\* One iteration of `for raw_line in gz`.
StreamLine ==
    /\ genPc \in {"created", "reading"}
    /\ gz_bytes.gzip
    /\ lineNo < Len(FileLines(gz_bytes.data))
    /\ StreamTakeLine(FileLines(gz_bytes.data)[lineNo + 1])
    /\ UNCHANGED gz_bytes
    /\ UNCHANGED <<regVars, aggVars, parseVars, etlVars>>

\* The file is at its end: the loop and the generator end.
StreamEnd ==
    /\ genPc \in {"created", "reading"}
    /\ gz_bytes.gzip
    /\ lineNo = Len(FileLines(gz_bytes.data))
    /\ genPc' = "exhausted"
    /\ UNCHANGED <<gz_bytes, lineNo, yielded>>
    /\ UNCHANGED <<regVars, aggVars, parseVars, etlVars>>

StreamNext == StreamOpenFails \/ StreamLine \/ StreamEnd

GeneratorInit == StreamInit /\ RegIdle /\ AggIdle /\ ParseIdle /\ EtlIdle

SpecStream == GeneratorInit /\ [][StreamNext]_vars

--------------------------------------------------------------------------
(* Claims about the record generator                                       *)

\* The records of the accepted lines among the first n lines, in line order.
AcceptedUpTo(lines, n) ==
    SelectSeq([i \in 1..n |-> LineParsed[lines[i]]], IsParsed)

\* The generator on the lines of a decompressed blob.
YieldsAccepted(lines) ==
    /\ genPc # "raised"
    /\ yielded = AcceptedUpTo(lines, lineNo)
    /\ genPc = "exhausted" => lineNo = Len(lines)

\* C13: for every blob that decompresses, parse_gzip_stream yields exactly
\* the records of the lines parse_log_line accepts, one per accepted line,
\* in line order; a line that gives no record yields nothing and does not
\* stop the sequence, which ends only after the last line.
C13_YieldsAcceptedInOrder ==
    (genPc # "off" /\ gz_bytes.gzip) => YieldsAccepted(FileLines(gz_bytes.data))

====
